---- MODULE Spec2Model ----
(***************************************************************************)
(* Valbak: the versioned backup engine (file.rs) and the supervisor and    *)
(* watcher threads (watcher.rs) driven by the UI loop (main.rs).           *)
(*                                                                         *)
(* Paths and file names are sequences of one-character strings, so that    *)
(* rfind("."), PathBuf::join, parse::<u32>, format!("{}.{}") and the glob  *)
(* matcher are computed the way the code computes them.                    *)
(***************************************************************************)
EXTENDS Integers, Sequences, FiniteSets, TLC

(***************************************************************************)
(* Bounds of the model.                                                    *)
(***************************************************************************)
\* number of inputs of the environment: writes to live files, restore and
\* delete requests, visits of the settings window
MaxInputs == 3
\* largest backup_count (retain count) a configuration is started with
MaxRetain == 2
\* capacity of the watcher's event channel in the model
MaxQueue == 2

(***************************************************************************)
(* Strings.                                                                *)
(***************************************************************************)
Digits == <<"0", "1", "2", "3", "4", "5", "6", "7", "8", "9">>

\* byte order of the characters that occur in the model's paths
CharRank(c) ==
    CASE c = "*" -> 42 [] c = "." -> 46 [] c = "/" -> 47
      [] c = "0" -> 48 [] c = "1" -> 49 [] c = "2" -> 50 [] c = "3" -> 51
      [] c = "4" -> 52 [] c = "5" -> 53 [] c = "6" -> 54 [] c = "7" -> 55
      [] c = "8" -> 56 [] c = "9" -> 57 [] c = "?" -> 63 [] c = "_" -> 95
      [] c = "a" -> 97 [] c = "b" -> 98 [] c = "c" -> 99 [] c = "d" -> 100
      [] c = "w" -> 119 [] c = "x" -> 120 [] c = "y" -> 121

IsDigit(c) == \E i \in 1..10 : Digits[i] = c

DigitValue(c) == (CHOOSE i \in 1..10 : Digits[i] = c) - 1

RECURSIVE RFindFrom(_, _, _)
\* the search of str::rfind, from position i towards the front
RFindFrom(s, c, i) ==
    IF i = 0 THEN 0
    ELSE IF s[i] = c THEN i
    ELSE RFindFrom(s, c, i - 1)

\* str::rfind: index of the last occurrence of c in s, 0 when there is none
RFind(s, c) == RFindFrom(s, c, Len(s))

RECURSIVE DecimalValue(_)
DecimalValue(s) ==
    IF s = <<>> THEN 0
    ELSE 10 * DecimalValue(SubSeq(s, 1, Len(s) - 1)) + DigitValue(s[Len(s)])

\* str::parse::<u32>: -1 stands for Err.  Suffixes of up to nine digits are
\* parsed; the model's file names never carry more (u32::MAX has ten)
ParseU32(s) ==
    IF s = <<>> \/ \E i \in 1..Len(s) : ~IsDigit(s[i]) THEN -1
    ELSE IF Len(s) > 9 THEN -1
    ELSE DecimalValue(s)

RECURSIVE FormatU32(_)
\* Display for u32
FormatU32(n) ==
    IF n < 10 THEN <<Digits[n + 1]>>
    ELSE FormatU32(n \div 10) \o <<Digits[(n % 10) + 1]>>

RECURSIVE StrLess(_, _)
\* byte-wise lexicographic order, the order in which glob yields a directory
StrLess(a, b) ==
    IF b = <<>> THEN FALSE
    ELSE IF a = <<>> THEN TRUE
    ELSE IF Head(a) = Head(b) THEN StrLess(Tail(a), Tail(b))
    ELSE CharRank(Head(a)) < CharRank(Head(b))

RECURSIVE SortedPaths(_)
SortedPaths(S) ==
    IF S = {} THEN <<>>
    ELSE LET m == CHOOSE x \in S : \A y \in S \ {x} : StrLess(x, y)
         IN  <<m>> \o SortedPaths(S \ {m})

(***************************************************************************)
(* Paths (std::path).                                                      *)
(***************************************************************************)
\* PathBuf::join with a relative second part
Join(dir, name) == dir \o <<"/">> \o name

\* Path::parent
Parent(p) == SubSeq(p, 1, RFind(p, "/") - 1)

\* Path::file_name / PathExt::file_name_str
FileName(p) == SubSeq(p, RFind(p, "/") + 1, Len(p))

RECURSIVE Matches(_, _)
\* glob::Pattern::matches_path with the default MatchOptions: "*" matches any
\* run of characters ("/" included), "?" one character
Matches(pat, s) ==
    IF pat = <<>> THEN s = <<>>
    ELSE IF Head(pat) = "*"
         THEN Matches(Tail(pat), s) \/ (s # <<>> /\ Matches(pat, Tail(s)))
    ELSE IF s = <<>> THEN FALSE
    ELSE (Head(pat) = "?" \/ Head(pat) = Head(s)) /\ Matches(Tail(pat), Tail(s))

(***************************************************************************)
(* The file system: a function from the paths that exist to their entry.   *)
(***************************************************************************)
DirEntry == [kind |-> "dir", len |-> 0, modified |-> 0]

FileEntry(len, modified) == [kind |-> "file", len |-> len, modified |-> modified]

IsFile(fsys, p) == p \in DOMAIN fsys /\ fsys[p].kind = "file"

IsDir(fsys, p) == p \in DOMAIN fsys /\ fsys[p].kind = "dir"

PutEntry(fsys, p, e) == [q \in (DOMAIN fsys) \cup {p} |-> IF q = p THEN e ELSE fsys[q]]

RemoveEntry(fsys, p) == [q \in (DOMAIN fsys) \ {p} |-> fsys[q]]

\* glob::glob for a pattern whose directory part is literal: the entries of
\* that directory whose name matches the last component, in byte order
glob(fsys, pattern_path) ==
    LET dir == Parent(pattern_path)
        name_pattern == FileName(pattern_path)
    IN  SortedPaths({p \in DOMAIN fsys :
                        /\ Parent(p) = dir
                        /\ Matches(name_pattern, FileName(p))})

(***************************************************************************)
(* file.rs.  Results are records: ok says whether the call returned Ok,    *)
(* err names the error (FWarning, FError, or Other for a plain anyhow      *)
(* error), fs is the file system the call leaves behind.                   *)
(***************************************************************************)
\* get_file_metadata: the entry of an existing path
get_file_metadata(fsys, file_path) ==
    IF file_path \in DOMAIN fsys
    THEN [ok |-> TRUE, err |-> "none", metadata |-> fsys[file_path]]
    ELSE [ok |-> FALSE, err |-> "FError", metadata |-> DirEntry]

\* Option<u32>, None is -1
get_backed_up_version_number(backed_up_file_path) ==
    LET backed_up_filename == FileName(backed_up_file_path)
        dot_index == RFind(backed_up_filename, ".")
    IN  IF dot_index = 0 THEN -1
        ELSE ParseU32(SubSeq(backed_up_filename, dot_index + 1, Len(backed_up_filename)))

\* Option<PathBuf>: some is FALSE for None
strip_version_suffix_from_backed_up_file_path(backed_up_file_path) ==
    LET dot_index == RFind(backed_up_file_path, ".")
    IN  IF dot_index = 0 THEN [some |-> FALSE, path |-> <<>>]
        ELSE [some |-> TRUE, path |-> SubSeq(backed_up_file_path, 1, dot_index - 1)]

RECURSIVE LiveFilesFrom(_, _, _)
LiveFilesFrom(settings, fsys, i) ==
    IF i > Len(settings.backup_patterns) THEN <<>>
    ELSE LET backup_pattern == settings.backup_patterns[i]
             glob_pattern == Join(backup_pattern.source_dir, backup_pattern.filename_pattern)
         IN  glob(fsys, glob_pattern) \o LiveFilesFrom(settings, fsys, i + 1)

\* all live files, pattern by pattern
get_live_files(settings, fsys) == LiveFilesFrom(settings, fsys, 1)

\* Vec::retain-like filter of a sequence of paths by "has a version number"
RECURSIVE VersionedOnly(_)
VersionedOnly(paths) ==
    IF paths = <<>> THEN <<>>
    ELSE IF get_backed_up_version_number(Head(paths)) # -1
         THEN <<Head(paths)>> \o VersionedOnly(Tail(paths))
         ELSE VersionedOnly(Tail(paths))

RECURSIVE BackedUpFilesFrom(_, _, _)
BackedUpFilesFrom(settings, fsys, i) ==
    IF i > Len(settings.backup_patterns) THEN <<>>
    ELSE LET backup_pattern == settings.backup_patterns[i]
             backup_folder_name == FileName(backup_pattern.source_dir)
             backed_up_versions_filename_pattern == backup_pattern.filename_pattern \o <<".", "*">>
             backed_up_versions_pattern ==
                 Join(Join(settings.backup_dest_path, backup_folder_name),
                      backed_up_versions_filename_pattern)
         IN  VersionedOnly(glob(fsys, backed_up_versions_pattern))
                 \o BackedUpFilesFrom(settings, fsys, i + 1)

\* all backed up files, pattern by pattern: a file is listed once for every
\* pattern whose destination glob matches it
get_backed_up_files(settings, fsys) == BackedUpFilesFrom(settings, fsys, 1)

\* all files matching backup_pattern in the destination folder (no check of
\* the suffix, no check of the identity)
get_backed_up_version_paths(fsys, backup_dest_path, backup_pattern) ==
    LET backed_up_versions_filename_pattern == backup_pattern.filename_pattern \o <<".", "*">>
        backed_up_folder_name == FileName(backup_pattern.source_dir)
        backed_up_versions_pattern ==
            Join(Join(backup_dest_path, backed_up_folder_name), backed_up_versions_filename_pattern)
    IN  glob(fsys, backed_up_versions_pattern)

\* a search that falls back on the first pattern when none matches
FoundBackupPattern_Fallback(settings, live_file_path) ==
    LET live_file_folder_name == FileName(Parent(live_file_path))
        hits == {i \in 1..Len(settings.backup_patterns) :
                    /\ FileName(settings.backup_patterns[i].source_dir) = live_file_folder_name
                    /\ Matches(settings.backup_patterns[i].filename_pattern, live_file_path)}
    IN  IF hits = {} THEN 1 ELSE CHOOSE i \in hits : \A j \in hits : j <= i

\* step 1 of live_file_has_backup: the index of the pattern the loop ends
\* with (every match overwrites found_backup_pattern), 0 when none matches
FoundBackupPattern(settings, live_file_path) ==
    LET live_file_folder_name == FileName(Parent(live_file_path))
        hits == {i \in 1..Len(settings.backup_patterns) :
                    /\ FileName(settings.backup_patterns[i].source_dir) = live_file_folder_name
                    /\ Matches(settings.backup_patterns[i].filename_pattern, live_file_path)}
    IN  IF hits = {} THEN 0 ELSE CHOOSE i \in hits : \A j \in hits : j <= i

live_file_has_backup(settings, fsys, live_file_path) ==
    LET found == FoundBackupPattern(settings, live_file_path)
    IN  IF found = 0 THEN [ok |-> FALSE, err |-> "FWarning", val |-> FALSE]
        ELSE
        LET backed_up_version_paths ==
                get_backed_up_version_paths(fsys, settings.backup_dest_path,
                                            settings.backup_patterns[found])
            live == get_file_metadata(fsys, live_file_path)
        IN  IF ~live.ok THEN [ok |-> FALSE, err |-> "FError", val |-> FALSE]
            ELSE [ok |-> TRUE, err |-> "none",
                  val |-> \E i \in 1..Len(backed_up_version_paths) :
                            LET backed_up == fsys[backed_up_version_paths[i]]
                            IN  /\ backed_up.len = live.metadata.len
                                /\ backed_up.modified = live.metadata.modified]

\* 1 + the largest number parsed from the files matching <filename>.* (a
\* suffix that does not parse counts as 0)
\* a next version that counts the existing versions instead of reading
\* their numbers
next_backup_version_Counted(fsys, backed_up_folder, backup_filename) ==
    Len(glob(fsys, Join(backed_up_folder, backup_filename \o <<".", "*">>))) + 1

next_backup_version(fsys, backed_up_folder, backup_filename) ==
    LET backed_up_versions_pattern == Join(backed_up_folder, backup_filename \o <<".", "*">>)
        history_paths == glob(fsys, backed_up_versions_pattern)
        numbers == {0} \cup {get_backed_up_version_number(history_paths[i]) :
                                i \in 1..Len(history_paths)}
        history_number == CHOOSE n \in numbers : \A m \in numbers : m <= n
    IN  history_number + 1

\* the temp file of a back up: "_" + filename in the destination folder
TempBackupFilePath(settings, live_file_path) ==
    Join(Join(settings.backup_dest_path, FileName(Parent(live_file_path))),
         <<"_">> \o FileName(live_file_path))

\* back_up_live_file, create_dir of the destination folder: AlreadyExists is
\* not an error, a missing parent is
BackUpCreateDir(settings, fsys, live_file_path) ==
    LET backup_dest_path == Join(settings.backup_dest_path, FileName(Parent(live_file_path)))
    IN  IF backup_dest_path \in DOMAIN fsys THEN [ok |-> TRUE, err |-> "none", fs |-> fsys]
        ELSE IF ~IsDir(fsys, Parent(backup_dest_path))
        THEN [ok |-> FALSE, err |-> "Other", fs |-> fsys]
        ELSE [ok |-> TRUE, err |-> "none", fs |-> PutEntry(fsys, backup_dest_path, DirEntry)]

\* back_up_live_file, create_dir and copy.  keep_mtime: whether the
\* platform's copy carries the source's mtime over (otherwise the copy gets
\* a timestamp of its own, written 0)
BackUpCopy(settings, fsys, live_file_path, keep_mtime) ==
    LET backup_dest_path == Join(settings.backup_dest_path, FileName(Parent(live_file_path)))
        temp_backup_file_path == TempBackupFilePath(settings, live_file_path)
        created == IF backup_dest_path \in DOMAIN fsys THEN fsys
                   ELSE PutEntry(fsys, backup_dest_path, DirEntry)
    IN  IF backup_dest_path \notin DOMAIN fsys /\ ~IsDir(fsys, Parent(backup_dest_path))
        THEN [ok |-> FALSE, err |-> "Other", fs |-> fsys]
        ELSE IF \/ ~IsFile(created, live_file_path)
                \/ ~IsDir(created, backup_dest_path)
                \/ IsDir(created, temp_backup_file_path)
        THEN [ok |-> FALSE, err |-> "Other", fs |-> created]
        ELSE [ok |-> TRUE, err |-> "none",
              fs |-> PutEntry(created, temp_backup_file_path,
                         FileEntry(fsys[live_file_path].len,
                                   IF keep_mtime THEN fsys[live_file_path].modified ELSE 0))]

\* a back up that leaves the copy with the timestamp the copy gave it
BackUpStamp_Unstamped(settings, fsys, live_file_path) ==
    LET temp_backup_file_path == TempBackupFilePath(settings, live_file_path)
        live == get_file_metadata(fsys, live_file_path)
    IN  IF ~live.ok \/ temp_backup_file_path \notin DOMAIN fsys
        THEN [ok |-> FALSE, err |-> "Other", fs |-> fsys]
        ELSE [ok |-> TRUE, err |-> "none", fs |-> fsys]

\* back_up_live_file, get_file_metadata of the live file and set_file_mtime
BackUpStamp(settings, fsys, live_file_path) ==
    LET temp_backup_file_path == TempBackupFilePath(settings, live_file_path)
        live == get_file_metadata(fsys, live_file_path)
    IN  IF ~live.ok \/ temp_backup_file_path \notin DOMAIN fsys
        THEN [ok |-> FALSE, err |-> "Other", fs |-> fsys]
        ELSE [ok |-> TRUE, err |-> "none",
              fs |-> PutEntry(fsys, temp_backup_file_path,
                         [fsys[temp_backup_file_path] EXCEPT !.modified = live.metadata.modified])]

\* back_up_live_file, rename of the temp file to <filename>.<next_version>
BackUpPublish(settings, fsys, live_file_path, next_version) ==
    LET backup_dest_path == Join(settings.backup_dest_path, FileName(Parent(live_file_path)))
        live_filename == FileName(live_file_path)
        temp_backup_file_path == TempBackupFilePath(settings, live_file_path)
        backed_up_file_path ==
            Join(backup_dest_path, live_filename \o <<".">> \o FormatU32(next_version))
    IN  IF ~IsFile(fsys, temp_backup_file_path) \/ IsDir(fsys, backed_up_file_path)
        THEN [ok |-> FALSE, err |-> "Other", fs |-> fsys, version |-> 0, path |-> <<>>]
        ELSE [ok |-> TRUE, err |-> "none",
              fs |-> RemoveEntry(PutEntry(fsys, backed_up_file_path, fsys[temp_backup_file_path]),
                                 temp_backup_file_path),
              version |-> next_version, path |-> backed_up_file_path]

\* back_up_live_file, next_backup_version and rename
BackUpRename(settings, fsys, live_file_path) ==
    BackUpPublish(settings, fsys, live_file_path,
                  next_backup_version(fsys,
                      Join(settings.backup_dest_path, FileName(Parent(live_file_path))),
                      FileName(live_file_path)))

\* the whole of back_up_live_file
back_up_live_file(settings, fsys, live_file_path, keep_mtime) ==
    LET copied == BackUpCopy(settings, fsys, live_file_path, keep_mtime)
    IN  IF ~copied.ok
        THEN [ok |-> FALSE, err |-> copied.err, fs |-> copied.fs, version |-> 0, path |-> <<>>]
        ELSE LET stamped == BackUpStamp(settings, copied.fs, live_file_path)
             IN  IF ~stamped.ok
                 THEN [ok |-> FALSE, err |-> stamped.err, fs |-> stamped.fs,
                       version |-> 0, path |-> <<>>]
                 ELSE BackUpRename(settings, stamped.fs, live_file_path)

\* Vec::insert keeping the order of sort_by: x goes behind every element
\* whose version number is not larger (the sort is stable)
InsertByVersion(sorted, x) ==
    LET k == Cardinality({i \in 1..Len(sorted) :
                 get_backed_up_version_number(sorted[i]) <= get_backed_up_version_number(x)})
    IN  SubSeq(sorted, 1, k) \o <<x>> \o SubSeq(sorted, k + 1, Len(sorted))

RECURSIVE SortByVersion(_)
\* backed_up_paths.sort_by(|a, b| a_num.cmp(&b_num))
SortByVersion(paths) ==
    IF paths = <<>> THEN <<>>
    ELSE InsertByVersion(SortByVersion(SubSeq(paths, 1, Len(paths) - 1)), paths[Len(paths)])

RECURSIVE PathsWithKey(_, _)
\* MultiMap: the values inserted under one stripped path, in insertion order
PathsWithKey(paths, key) ==
    IF paths = <<>> THEN <<>>
    ELSE IF strip_version_suffix_from_backed_up_file_path(Head(paths)).path = key
         THEN <<Head(paths)>> \o PathsWithKey(Tail(paths), key)
         ELSE PathsWithKey(Tail(paths), key)

\* the files delete_old_backups removes for one key of the MultiMap
DoomedPaths(backed_up_paths, backup_count) ==
    IF Len(backed_up_paths) > backup_count
    THEN LET sorted == SortByVersion(backed_up_paths)
         IN  {sorted[i] : i \in 1..(Len(sorted) - backup_count)}
    ELSE {}

\* a prune that removes nothing once one of its remove_file calls fails
delete_old_backups_FailFast(settings, fsys) ==
    LET backed_up_file_paths == get_backed_up_files(settings, fsys)
        keys == {strip_version_suffix_from_backed_up_file_path(backed_up_file_paths[i]).path :
                    i \in 1..Len(backed_up_file_paths)}
        doomed == UNION {DoomedPaths(PathsWithKey(backed_up_file_paths, key),
                                     settings.backup_count) : key \in keys}
    IN  IF \E d \in doomed : ~IsFile(fsys, d)
        THEN [ok |-> FALSE, err |-> "Other", fs |-> fsys]
        ELSE [ok |-> TRUE, err |-> "none", fs |-> [q \in (DOMAIN fsys) \ doomed |-> fsys[q]]]

\* delete_old_backups: remove_file on every doomed path (a failing
\* remove_file, as on a directory, is logged and skipped)
delete_old_backups(settings, fsys) ==
    LET backed_up_file_paths == get_backed_up_files(settings, fsys)
        keys == {strip_version_suffix_from_backed_up_file_path(backed_up_file_paths[i]).path :
                    i \in 1..Len(backed_up_file_paths)}
        doomed == UNION {DoomedPaths(PathsWithKey(backed_up_file_paths, key),
                                     settings.backup_count) : key \in keys}
    IN  IF \E i \in 1..Len(backed_up_file_paths) :
              ~strip_version_suffix_from_backed_up_file_path(backed_up_file_paths[i]).some
        THEN [ok |-> FALSE, err |-> "Other", fs |-> fsys]
        ELSE [ok |-> TRUE, err |-> "none",
              fs |-> [q \in (DOMAIN fsys) \ {d \in doomed : IsFile(fsys, d)} |-> fsys[q]]]

\* a delete that gives up at the first file it cannot remove
DeleteFrom_FailFast(fsys, backed_up_file_paths, errs) ==
    LET failing == {i \in 1..Len(backed_up_file_paths) :
                       \/ ~IsFile(fsys, backed_up_file_paths[i])
                       \/ \E j \in 1..(i - 1) : backed_up_file_paths[j] = backed_up_file_paths[i]}
        stop == IF failing = {} THEN Len(backed_up_file_paths) + 1
                ELSE CHOOSE i \in failing : \A j \in failing : i <= j
    IN  [ok |-> failing = {}, err |-> IF failing = {} THEN "none" ELSE "FWarning",
         fs |-> [q \in (DOMAIN fsys) \ {backed_up_file_paths[i] : i \in 1..(stop - 1)}
                    |-> fsys[q]],
         errs |-> errs + (IF failing = {} THEN 0 ELSE 1)]

RECURSIVE DeleteFrom(_, _, _)
DeleteFrom(fsys, backed_up_file_paths, errs) ==
    IF backed_up_file_paths = <<>>
    THEN [ok |-> errs = 0, err |-> IF errs = 0 THEN "none" ELSE "FWarning",
          fs |-> fsys, errs |-> errs]
    ELSE LET backed_up_path == Head(backed_up_file_paths)
         IN  IF IsFile(fsys, backed_up_path)
             THEN DeleteFrom(RemoveEntry(fsys, backed_up_path), Tail(backed_up_file_paths), errs)
             ELSE DeleteFrom(fsys, Tail(backed_up_file_paths), errs + 1)

\* delete_backed_up_files: remove_file on every path, one message per failure
delete_backed_up_files(fsys, backed_up_file_paths) == DeleteFrom(fsys, backed_up_file_paths, 0)

\* BackupFilePattern::to_path
to_path(backup_pattern) == Join(backup_pattern.source_dir, backup_pattern.filename_pattern)

RECURSIVE LiveFileFrom(_, _, _, _)
LiveFileFrom(settings, backed_up_folder_name, stripped_backed_up_filename, i) ==
    IF i > Len(settings.backup_patterns) THEN [ok |-> FALSE, err |-> "FError", path |-> <<>>]
    ELSE LET backup_pattern_path == to_path(settings.backup_patterns[i])
             backup_pattern_folder_name == FileName(Parent(backup_pattern_path))
             expected_live_file_path ==
                 Join(Parent(backup_pattern_path), stripped_backed_up_filename)
         IN  IF /\ backup_pattern_folder_name = backed_up_folder_name
                /\ Matches(backup_pattern_path, expected_live_file_path)
             THEN [ok |-> TRUE, err |-> "none", path |-> expected_live_file_path]
             ELSE LiveFileFrom(settings, backed_up_folder_name, stripped_backed_up_filename, i + 1)

\* a resolution that takes the first pattern of the folder without matching
\* the rebuilt path against its glob
get_live_file_for_backed_up_file_Unmatched(settings, backed_up_file) ==
    LET backed_up_folder_name == FileName(Parent(backed_up_file))
        stripped == strip_version_suffix_from_backed_up_file_path(backed_up_file)
        hits == {i \in 1..Len(settings.backup_patterns) :
                    FileName(settings.backup_patterns[i].source_dir) = backed_up_folder_name}
    IN  IF ~stripped.some \/ hits = {} THEN [ok |-> FALSE, err |-> "FError", path |-> <<>>]
        ELSE [ok |-> TRUE, err |-> "none",
              path |-> Join(settings.backup_patterns[CHOOSE i \in hits : \A j \in hits : i <= j]
                                .source_dir,
                            FileName(stripped.path))]

\* the live file a backed up file was made from: the first pattern, in
\* configuration order, whose folder name and glob fit
get_live_file_for_backed_up_file(settings, backed_up_file) ==
    LET backed_up_folder_name == FileName(Parent(backed_up_file))
        stripped == strip_version_suffix_from_backed_up_file_path(backed_up_file)
    IN  IF ~stripped.some THEN [ok |-> FALSE, err |-> "FError", path |-> <<>>]
        ELSE LiveFileFrom(settings, backed_up_folder_name, FileName(stripped.path), 1)

\* a restore that renames the copy without set_file_mtime
RestoreOne_Unstamped(fsys, backed_up_path, source_file_path, keep_mtime) ==
    LET temp_source_file_path ==
            Join(Parent(backed_up_path), <<"_">> \o FileName(source_file_path))
        copied == PutEntry(fsys, temp_source_file_path,
                      FileEntry(fsys[backed_up_path].len,
                                IF keep_mtime THEN fsys[backed_up_path].modified ELSE 0))
    IN  IF ~IsFile(fsys, backed_up_path) \/ IsDir(fsys, temp_source_file_path)
        THEN [restored |-> FALSE, fs |-> fsys]
        ELSE IF ~IsDir(copied, Parent(source_file_path)) \/ IsDir(copied, source_file_path)
        THEN [restored |-> FALSE, fs |-> copied]
        ELSE [restored |-> TRUE,
              fs |-> RemoveEntry(PutEntry(copied, source_file_path,
                                          copied[temp_source_file_path]),
                                 temp_source_file_path)]

\* one round of the loop of restore_backed_up_files whose live path was
\* resolved: "continue" on a failing step leaves fs as it is at that point
RestoreOne(fsys, backed_up_path, source_file_path, keep_mtime) ==
    LET temp_source_file_path ==
            Join(Parent(backed_up_path), <<"_">> \o FileName(source_file_path))
        backed_up == get_file_metadata(fsys, backed_up_path)
        copied == PutEntry(fsys, temp_source_file_path,
                      FileEntry(fsys[backed_up_path].len,
                                IF keep_mtime THEN fsys[backed_up_path].modified ELSE 0))
        stamped == PutEntry(copied, temp_source_file_path,
                       [copied[temp_source_file_path]
                           EXCEPT !.modified = backed_up.metadata.modified])
    IN  IF ~backed_up.ok THEN [restored |-> FALSE, fs |-> fsys]
        ELSE IF ~IsFile(fsys, backed_up_path) \/ IsDir(fsys, temp_source_file_path)
        THEN [restored |-> FALSE, fs |-> fsys]
        ELSE IF ~IsDir(stamped, Parent(source_file_path)) \/ IsDir(stamped, source_file_path)
        THEN [restored |-> FALSE, fs |-> stamped]
        ELSE [restored |-> TRUE,
              fs |-> RemoveEntry(PutEntry(stamped, source_file_path,
                                          stamped[temp_source_file_path]),
                                 temp_source_file_path)]

RECURSIVE RestoreFrom(_, _, _, _, _)
RestoreFrom(settings, fsys, backed_up_file_paths, keep_mtime, restored) ==
    IF backed_up_file_paths = <<>>
    THEN [ok |-> TRUE, err |-> "none", fs |-> fsys, restored |-> restored]
    ELSE LET backed_up_path == Head(backed_up_file_paths)
             source == get_live_file_for_backed_up_file(settings, backed_up_path)
         IN  IF ~source.ok
             THEN [ok |-> FALSE, err |-> source.err, fs |-> fsys, restored |-> restored]
             ELSE LET one == RestoreOne(fsys, backed_up_path, source.path, keep_mtime)
                  IN  RestoreFrom(settings, one.fs, Tail(backed_up_file_paths), keep_mtime,
                                  IF one.restored THEN Append(restored, source.path)
                                  ELSE restored)

\* restore_backed_up_files; restored lists the live paths renamed over
restore_backed_up_files(settings, fsys, backed_up_file_paths, keep_mtime) ==
    RestoreFrom(settings, fsys, backed_up_file_paths, keep_mtime, <<>>)

\* the temp file of a restore: "_" + the live file's name, joined to the
\* folder of the backed up file
TempSourceFilePath(backed_up_path, source_file_path) ==
    Join(Parent(backed_up_path), <<"_">> \o FileName(source_file_path))

\* one round of restore_backed_up_files, get_file_metadata of the backed up
\* file and copy to the temp file; ok FALSE is "continue"
RestoreCopyStep(fsys, backed_up_path, source_file_path, keep_mtime) ==
    LET temp_source_file_path == TempSourceFilePath(backed_up_path, source_file_path)
        backed_up == get_file_metadata(fsys, backed_up_path)
    IN  IF ~backed_up.ok \/ ~IsFile(fsys, backed_up_path) \/ IsDir(fsys, temp_source_file_path)
        THEN [ok |-> FALSE, fs |-> fsys, modified |-> 0]
        ELSE [ok |-> TRUE,
              fs |-> PutEntry(fsys, temp_source_file_path,
                         FileEntry(fsys[backed_up_path].len,
                                   IF keep_mtime THEN fsys[backed_up_path].modified ELSE 0)),
              modified |-> backed_up.metadata.modified]

\* one round of restore_backed_up_files, set_file_mtime of the temp file
RestoreStampStep(fsys, backed_up_path, source_file_path, backed_up_file_modified) ==
    LET temp_source_file_path == TempSourceFilePath(backed_up_path, source_file_path)
    IN  IF temp_source_file_path \notin DOMAIN fsys THEN [ok |-> FALSE, fs |-> fsys]
        ELSE [ok |-> TRUE,
              fs |-> PutEntry(fsys, temp_source_file_path,
                         [fsys[temp_source_file_path]
                             EXCEPT !.modified = backed_up_file_modified])]

\* one round of restore_backed_up_files, rename of the temp file over the
\* live file
RestoreRenameStep(fsys, backed_up_path, source_file_path) ==
    LET temp_source_file_path == TempSourceFilePath(backed_up_path, source_file_path)
    IN  IF \/ ~IsFile(fsys, temp_source_file_path)
           \/ ~IsDir(fsys, Parent(source_file_path))
           \/ IsDir(fsys, source_file_path)
        THEN [ok |-> FALSE, fs |-> fsys]
        ELSE [ok |-> TRUE,
              fs |-> RemoveEntry(PutEntry(fsys, source_file_path, fsys[temp_source_file_path]),
                                 temp_source_file_path)]

(***************************************************************************)
(* Configurations and the files of the model.                              *)
(***************************************************************************)
DirXW == <<"/", "x", "/", "w">>

DirYW == <<"/", "y", "/", "w">>

DestRoot == <<"/", "d">>

NameA == <<"a", ".", "d", "b">>

NameB == <<"b", ".", "d", "b">>

PatDb == <<"*", ".", "d", "b">>

PatB == <<"*", "b">>

BackupFilePattern(source_dir, filename_pattern) ==
    [source_dir |-> source_dir, filename_pattern |-> filename_pattern]

\* one pattern; two patterns on one directory whose globs both match *.db
\* files; two patterns whose source directories are both named "w"
PatternLists ==
    { <<BackupFilePattern(DirXW, PatDb)>>,
      <<BackupFilePattern(DirXW, PatDb), BackupFilePattern(DirXW, PatB)>>,
      <<BackupFilePattern(DirXW, PatDb), BackupFilePattern(DirYW, PatDb)>> }

Settings(backup_patterns, backup_count) ==
    [backup_patterns |-> backup_patterns, backup_dest_path |-> DestRoot,
     backup_count |-> backup_count]

AllSettings == {Settings(pl, n) : pl \in PatternLists, n \in 1..MaxRetain}

\* the configuration of the spec's scenarios: one pattern, retain count 2
ScenarioSettings == Settings(<<BackupFilePattern(DirXW, PatDb)>>, 2)

SourceDirs(s) == {s.backup_patterns[i].source_dir : i \in 1..Len(s.backup_patterns)}

\* the live files the environment writes: a.db in every source directory,
\* and b.db beside it when a single pattern is configured
LivePaths(s) ==
    {Join(d, NameA) : d \in SourceDirs(s)}
        \cup (IF Len(s.backup_patterns) = 1 THEN {Join(DirXW, NameB)} ELSE {})

\* the <<size, modification time>> pairs a written file can have
Stamps == {<<1, 1>>, <<1, 2>>, <<2, 1>>}

(***************************************************************************)
(* State.                                                                  *)
(***************************************************************************)
VARIABLES
    fs,        \* the file system
    main,      \* MainState and its mutex, the position of the UI thread's
               \* handler and its locals, the position of the graceful-quit thread
    cmdq,      \* per backup thread: its BackupMessage channel
    sup,       \* per backup thread: position and locals of backup_thread_main
    evq,       \* per backup thread: its watcher's DebouncedEvent channel
    wat,       \* per backup thread: position and locals of watcher_thread_main
    assigned,  \* history: per stripped backup path, the version numbers given
    last,      \* history: the operation that made the last step
    count      \* history: how many inputs the environment has made

vars == <<fs, main, cmdq, sup, evq, wat, assigned, last, count>>

\* number of backup threads the UI starts in one behaviour
MaxRuns == 2

Threads == 1..MaxRuns

NoPath == <<>>

Last(op, path, ok, dup, version, sent) ==
    [op |-> op, path |-> path, ok |-> ok, dup |-> dup, version |-> version, sent |-> sent]

\* the messages handle_error sends for a result that is an error
handle_error(result) ==
    IF result.ok THEN <<>>
    ELSE IF result.err = "FWarning" THEN <<"Alert">> ELSE <<"AlertQuit">>

\* a handler that backs up whatever the duplicate check said
ShouldBackUp_Always(file_has_backup) == TRUE

\* "if !file_has_backup" of on_file_change and backup_all_changed_files
ShouldBackUp(file_has_backup) == ~file_has_backup

\* the history of version numbers after a back up
Record(hist, result) ==
    IF ~result.ok THEN hist
    ELSE LET key == strip_version_suffix_from_backed_up_file_path(result.path).path
             old == IF key \in DOMAIN hist THEN hist[key] ELSE <<>>
         IN  [k \in (DOMAIN hist) \cup {key} |->
                 IF k = key THEN Append(old, result.version) ELSE hist[k]]

\* STOP_WATCHER_ERROR
STOP_WATCHER_ERROR == "STOP"

\* DebouncedEvent::Create(path) or DebouncedEvent::Write(path)
FileChanged(path) == [kind |-> "Write", path |-> path, err |-> "none"]

\* DebouncedEvent::Error(notify::Error::Generic(msg), None)
GenericError(msg) == [kind |-> "Error", path |-> NoPath, err |-> msg]

\* a watcher that takes the sentinel for an ordinary error
IsStopSentinel_Never(file_event) == FALSE

\* the test of the watcher for the stop sentinel
IsStopSentinel(file_event) == file_event.err = STOP_WATCHER_ERROR

\* the notify watchers that are alive: created by a Run, dropped when
\* backup_thread_main returns
Watching(g) == sup[g].current_watcher /\ sup[g].pc # "done"

\* every live notify watcher whose directories hold the path gets the event
Notified(q, path) ==
    [g \in Threads |->
        IF Watching(g) /\ Parent(path) \in SourceDirs(sup[g].settings)
        THEN Append(q[g], FileChanged(path))
        ELSE q[g]]

RECURSIVE NotifiedAll(_, _)
NotifiedAll(q, paths) ==
    IF paths = <<>> THEN q ELSE NotifiedAll(Notified(q, Head(paths)), Tail(paths))

\* the state after construction for settings s and the file system fsys the
\* program is started on
InitState(s, fsys) ==
    /\ main = [settings |-> s, backup_thread |-> 0, backup_thread_tx |-> 0,
               settings_win |-> FALSE, pc |-> "start", started |-> 0,
               live_file_paths |-> <<>>, next_version |-> 0,
               selected_backup_paths |-> <<>>, backed_up_file_modified |-> 0,
               quitting |-> FALSE, lock |-> "free", quit |-> "none", exit_code |-> -1,
               handled |-> 0]
    /\ fs = fsys
    /\ cmdq = [g \in Threads |-> <<>>]
    /\ sup = [g \in Threads |->
                [pc |-> "none", current_watcher |-> FALSE, current_watcher_thread |-> FALSE,
                 current_watcher_thread_tx |-> FALSE, settings |-> s,
                 status |-> <<>>]]
    /\ evq = [g \in Threads |-> <<>>]
    /\ wat = [g \in Threads |-> [pc |-> "none", file_path |-> NoPath, next_version |-> 0]]
    /\ assigned = <<>>
    /\ last = Last("init", NoPath, TRUE, FALSE, 0, <<>>)
    /\ count = [inputs |-> 0]

\* the source directories and the destination exist and are empty
EmptyTree(s) == [p \in SourceDirs(s) \cup {DestRoot} |-> DirEntry]

Init == \E s \in AllSettings : InitState(s, EmptyTree(s))

(***************************************************************************)
(* The environment: a program writes a live file.                          *)
(***************************************************************************)
FsWrite(path, stamp) ==
    /\ count.inputs < MaxInputs
    /\ \A g \in Threads : Watching(g) => Len(evq[g]) < MaxQueue
    /\ fs' = PutEntry(fs, path, FileEntry(stamp[1], stamp[2]))
    /\ evq' = Notified(evq, path)
    /\ count' = [count EXCEPT !.inputs = @ + 1]
    /\ last' = Last("write", path, TRUE, FALSE, 0, <<>>)
    /\ UNCHANGED <<main, cmdq, sup, wat, assigned>>

\* a DebouncedEvent that is neither Create nor Write nor Error
OtherEvent(kind, path) == [kind |-> kind, path |-> path, err |-> "none"]

\* every live notify watcher whose directories hold the event's path gets
\* the event
NotifiedOf(q, file_event) ==
    [g \in Threads |->
        IF Watching(g) /\ Parent(file_event.path) \in SourceDirs(sup[g].settings)
        THEN Append(q[g], file_event)
        ELSE q[g]]

\* a program removes a file of a watched directory (DebouncedEvent::Remove)
FsRemove(path) ==
    /\ count.inputs < MaxInputs
    /\ \A g \in Threads : Watching(g) => Len(evq[g]) < MaxQueue
    /\ IsFile(fs, path)
    /\ fs' = RemoveEntry(fs, path)
    /\ evq' = NotifiedOf(evq, OtherEvent("Remove", path))
    /\ count' = [count EXCEPT !.inputs = @ + 1]
    /\ last' = Last("remove", path, TRUE, FALSE, 0, <<>>)
    /\ UNCHANGED <<main, cmdq, sup, wat, assigned>>

\* a program changes the attributes of a file of a watched directory
\* (DebouncedEvent::Chmod)
FsChmod(path) ==
    /\ count.inputs < MaxInputs
    /\ \A g \in Threads : Watching(g) => Len(evq[g]) < MaxQueue
    /\ IsFile(fs, path)
    /\ evq' = NotifiedOf(evq, OtherEvent("Chmod", path))
    /\ count' = [count EXCEPT !.inputs = @ + 1]
    /\ last' = Last("chmod", path, TRUE, FALSE, 0, <<>>)
    /\ UNCHANGED <<fs, main, cmdq, sup, wat, assigned>>

\* the notify::Error variants; Generic stands for a Generic error whose
\* message is not STOP_WATCHER_ERROR
NotifyErrors == {"Io", "PathNotFound", "WatchNotFound", "Generic"}

\* DebouncedEvent::Error(err, None) of the notify watcher itself
NotifyError(err) == [kind |-> "Error", path |-> NoPath, err |-> err]

\* the notify watcher of backup thread g reports an error of its own
WatchError(g, err) ==
    /\ count.inputs < MaxInputs
    /\ Watching(g)
    /\ Len(evq[g]) < MaxQueue
    /\ evq' = [evq EXCEPT ![g] = Append(@, NotifyError(err))]
    /\ count' = [count EXCEPT !.inputs = @ + 1]
    /\ last' = Last("watch_error", NoPath, TRUE, FALSE, 0, <<>>)
    /\ UNCHANGED <<fs, main, cmdq, sup, wat, assigned>>

(***************************************************************************)
(* main.rs and start_backup_thread / stop_backup_thread.                   *)
(***************************************************************************)
\* start_backup_thread: both assertions hold, a new channel, a new thread
\* running backup_thread_main, and Run sent
start_backup_thread(g) ==
    /\ main.backup_thread = 0
    /\ cmdq' = [cmdq EXCEPT ![g] = <<[type |-> "Run", settings |-> main.settings]>>]
    /\ sup' = [sup EXCEPT ![g].pc = "recv"]

\* main: get_settings returned Ok
Startup ==
    /\ main.pc = "start"
    /\ start_backup_thread(1)
    /\ main' = [main EXCEPT !.pc = "idle", !.started = 1,
                            !.backup_thread = 1, !.backup_thread_tx = 1]
    /\ last' = Last("start", NoPath, TRUE, FALSE, 0, <<>>)
    /\ UNCHANGED <<fs, evq, wat, assigned, count>>

(***************************************************************************)
(* watcher.rs: backup_thread_main.                                         *)
(***************************************************************************)
\* a supervisor that reads the settings of the main state when it handles
\* Run, and not those of the message
SupRun_Shared(g) ==
    /\ sup[g].pc = "recv"
    /\ cmdq[g] # <<>>
    /\ Head(cmdq[g]).type = "Run"
    /\ ~sup[g].current_watcher
    /\ cmdq' = [cmdq EXCEPT ![g] = Tail(@)]
    /\ evq' = [evq EXCEPT ![g] = <<>>]
    /\ wat' = [wat EXCEPT ![g] = [pc |-> "recv", file_path |-> NoPath, next_version |-> 0]]
    /\ sup' = [sup EXCEPT ![g] =
                  [pc |-> "recv", current_watcher |-> TRUE, current_watcher_thread |-> TRUE,
                   current_watcher_thread_tx |-> TRUE, settings |-> main.settings,
                   status |-> Append(sup[g].status, "Running")]]
    /\ last' = Last("run", NoPath, TRUE, FALSE, 0, <<"Running">>)
    /\ UNCHANGED <<fs, main, assigned, count>>

\* BackupMessage::Run
SupRun(g) ==
    /\ sup[g].pc = "recv"
    /\ cmdq[g] # <<>>
    /\ Head(cmdq[g]).type = "Run"
    /\ ~sup[g].current_watcher
    /\ cmdq' = [cmdq EXCEPT ![g] = Tail(@)]
    /\ evq' = [evq EXCEPT ![g] = <<>>]
    /\ wat' = [wat EXCEPT ![g] = [pc |-> "recv", file_path |-> NoPath, next_version |-> 0]]
    /\ sup' = [sup EXCEPT ![g] =
                  [pc |-> "recv", current_watcher |-> TRUE, current_watcher_thread |-> TRUE,
                   current_watcher_thread_tx |-> TRUE, settings |-> Head(cmdq[g]).settings,
                   status |-> Append(sup[g].status, "Running")]]
    /\ last' = Last("run", NoPath, TRUE, FALSE, 0, <<"Running">>)
    /\ UNCHANGED <<fs, main, assigned, count>>

\* the calls of BackupMessage::Run that can fail: Watcher::new and watch
RunFaults == {"new", "watch"}

\* BackupMessage::Run whose registration fails: an error of Watcher::new is
\* sent as a status and the thread returns; an error of watch panics the
\* thread. Either way the receiver of the BackupMessage channel is dropped
\* and no watcher thread was spawned.
SupRunFault(g, fault) ==
    /\ sup[g].pc = "recv"
    /\ cmdq[g] # <<>>
    /\ Head(cmdq[g]).type = "Run"
    /\ ~sup[g].current_watcher
    /\ cmdq' = [cmdq EXCEPT ![g] = Tail(@)]
    /\ sup' = [sup EXCEPT ![g] =
                  [pc |-> IF fault = "new" THEN "failed" ELSE "panicked",
                   current_watcher |-> FALSE, current_watcher_thread |-> FALSE,
                   current_watcher_thread_tx |-> FALSE, settings |-> Head(cmdq[g]).settings,
                   status |-> IF fault = "new" THEN Append(sup[g].status, "Error")
                              ELSE sup[g].status]]
    /\ last' = Last("run", NoPath, FALSE, FALSE, 0,
                    IF fault = "new" THEN <<"Error">> ELSE <<>>)
    /\ UNCHANGED <<fs, main, evq, wat, assigned, count>>

(***************************************************************************)
(* watcher.rs: watcher_thread_main and on_file_change.                     *)
(***************************************************************************)
\* DebouncedEvent::Create / Write: on_file_change up to its "if"
WatcherFileEvent(g) ==
    /\ wat[g].pc = "recv"
    /\ evq[g] # <<>>
    /\ Head(evq[g]).kind = "Write"
    /\ LET file_path == Head(evq[g]).path
           has_backup == live_file_has_backup(sup[g].settings, fs, file_path)
       IN  /\ evq' = [evq EXCEPT ![g] = Tail(@)]
           /\ wat' = [wat EXCEPT ![g] =
                         IF has_backup.ok /\ ShouldBackUp(has_backup.val)
                         THEN [pc |-> "back_up", file_path |-> file_path, next_version |-> 0]
                         ELSE [pc |-> "recv", file_path |-> NoPath, next_version |-> 0]]
           /\ last' = Last("on_file_change", file_path, has_backup.ok, has_backup.val, 0,
                           handle_error(has_backup))
    /\ UNCHANGED <<fs, main, cmdq, sup, assigned, count>>

\* an on_file_change that returns after back_up_live_file
WatcherBackUp_NoPrune(g) ==
    /\ wat[g].pc = "back_up"
    /\ \E keep_mtime \in BOOLEAN :
          LET result == back_up_live_file(sup[g].settings, fs, wat[g].file_path, keep_mtime)
          IN  /\ fs' = result.fs
              /\ assigned' = Record(assigned, result)
              /\ last' = Last("back_up", wat[g].file_path, result.ok, FALSE, result.version,
                              handle_error(result))
    /\ wat' = [wat EXCEPT ![g] = [pc |-> "recv", file_path |-> NoPath, next_version |-> 0]]
    /\ UNCHANGED <<main, cmdq, sup, evq, count>>

\* on_file_change: back_up_live_file
WatcherBackUp(g) ==
    /\ wat[g].pc = "back_up"
    /\ \E keep_mtime \in BOOLEAN :
          LET result == back_up_live_file(sup[g].settings, fs, wat[g].file_path, keep_mtime)
          IN  /\ fs' = result.fs
              /\ assigned' = Record(assigned, result)
              /\ last' = Last("back_up", wat[g].file_path, result.ok, FALSE, result.version,
                              handle_error(result))
    /\ wat' = [wat EXCEPT ![g].pc = "prune"]
    /\ UNCHANGED <<main, cmdq, sup, evq, count>>

(***************************************************************************)
(* back_up_live_file step by step: each system call is a step of its own,  *)
(* so that the other threads and the programs that write the live files    *)
(* run between them.  A step can end with an I/O error of its system call  *)
(* (fault); glob of next_backup_version fails only on a malformed pattern, *)
(* which a file name of the model never is.                                *)
(***************************************************************************)
CopyFaults == {"none", "create_dir", "copy"}

StampFaults == {"none", "metadata", "set_file_mtime"}

RenameFaults == {"none", "rename"}

\* bail!: an anyhow error that is no FileError
Bail(fsys) == [ok |-> FALSE, err |-> "Other", fs |-> fsys, version |-> 0, path |-> <<>>]

\* create_dir and copy
BackUpCopyStep(settings, fsys, live_file_path, keep_mtime, fault) ==
    IF fault = "create_dir" THEN Bail(fsys)
    ELSE IF fault = "copy" THEN Bail(BackUpCreateDir(settings, fsys, live_file_path).fs)
    ELSE BackUpCopy(settings, fsys, live_file_path, keep_mtime)

\* a back up that removes its temp file when the stamping fails
BackUpStampStep_Cleanup(settings, fsys, live_file_path, fault) ==
    IF fault # "none"
    THEN Bail([q \in (DOMAIN fsys) \ {TempBackupFilePath(settings, live_file_path)} |-> fsys[q]])
    ELSE BackUpStamp(settings, fsys, live_file_path)

\* get_file_metadata of the live file and set_file_mtime of the temp file
BackUpStampStep(settings, fsys, live_file_path, fault) ==
    IF fault # "none" THEN Bail(fsys) ELSE BackUpStamp(settings, fsys, live_file_path)

\* next_backup_version for the live file
BackUpNumberStep(settings, fsys, live_file_path) ==
    next_backup_version(fsys, Join(settings.backup_dest_path, FileName(Parent(live_file_path))),
                        FileName(live_file_path))

\* rename of the temp file
BackUpPublishStep(settings, fsys, live_file_path, next_version, fault) ==
    IF fault # "none" THEN Bail(fsys)
    ELSE BackUpPublish(settings, fsys, live_file_path, next_version)

\* on_file_change, back_up_live_file: create_dir and copy
WatcherCopy(g, fault) ==
    /\ wat[g].pc = "back_up"
    /\ \E keep_mtime \in BOOLEAN :
          LET result == BackUpCopyStep(sup[g].settings, fs, wat[g].file_path, keep_mtime, fault)
          IN  /\ fs' = result.fs
              /\ wat' = [wat EXCEPT ![g].pc = IF result.ok THEN "stamp" ELSE "prune"]
              /\ last' = Last(IF result.ok THEN "copy" ELSE "back_up", wat[g].file_path,
                              result.ok, FALSE, 0, handle_error(result))
    /\ UNCHANGED <<main, cmdq, sup, evq, assigned, count>>

\* on_file_change, back_up_live_file: the live file's mtime is put on the copy
WatcherStamp(g, fault) ==
    /\ wat[g].pc = "stamp"
    /\ LET result == BackUpStampStep(sup[g].settings, fs, wat[g].file_path, fault)
       IN  /\ fs' = result.fs
           /\ wat' = [wat EXCEPT ![g].pc = IF result.ok THEN "number" ELSE "prune"]
           /\ last' = Last(IF result.ok THEN "stamp" ELSE "back_up", wat[g].file_path,
                           result.ok, FALSE, 0, handle_error(result))
    /\ UNCHANGED <<main, cmdq, sup, evq, assigned, count>>

\* on_file_change, back_up_live_file: next_backup_version
WatcherNumber(g) ==
    /\ wat[g].pc = "number"
    /\ wat' = [wat EXCEPT ![g].pc = "rename",
                          ![g].next_version =
                              BackUpNumberStep(sup[g].settings, fs, wat[g].file_path)]
    /\ last' = Last("number", wat[g].file_path, TRUE, FALSE, 0, <<>>)
    /\ UNCHANGED <<fs, main, cmdq, sup, evq, assigned, count>>

\* on_file_change, back_up_live_file: rename, the version is published
WatcherRename(g, fault) ==
    /\ wat[g].pc = "rename"
    /\ LET result == BackUpPublishStep(sup[g].settings, fs, wat[g].file_path,
                                       wat[g].next_version, fault)
       IN  /\ fs' = result.fs
           /\ assigned' = Record(assigned, result)
           /\ last' = Last("back_up", wat[g].file_path, result.ok, FALSE, result.version,
                           handle_error(result))
    /\ wat' = [wat EXCEPT ![g].pc = "prune", ![g].next_version = 0]
    /\ UNCHANGED <<main, cmdq, sup, evq, count>>

\* on_file_change: delete_old_backups and RefreshFilesLists
WatcherPrune(g) ==
    /\ wat[g].pc = "prune"
    /\ LET result == delete_old_backups(sup[g].settings, fs)
       IN  /\ fs' = result.fs
           /\ last' = Last("prune", wat[g].file_path, result.ok, FALSE, 0,
                           handle_error(result) \o <<"RefreshFilesLists">>)
    /\ wat' = [wat EXCEPT ![g] = [pc |-> "recv", file_path |-> NoPath, next_version |-> 0]]
    /\ UNCHANGED <<main, cmdq, sup, evq, assigned, count>>

\* a watcher that looks for the sentinel wherever it is in on_file_change
WatcherError_Preempting(g) ==
    /\ wat[g].pc \notin {"none", "done"}
    /\ evq[g] # <<>>
    /\ Head(evq[g]).kind = "Error"
    /\ evq' = [evq EXCEPT ![g] = Tail(@)]
    /\ wat' = [wat EXCEPT ![g].pc = IF IsStopSentinel(Head(evq[g])) THEN "done" ELSE "recv"]
    /\ last' = Last("watcher_error", NoPath, TRUE, FALSE, 0, <<>>)
    /\ UNCHANGED <<fs, main, cmdq, sup, assigned, count>>

\* a watcher that ends at whatever error it receives
WatcherError_Fatal(g) ==
    /\ wat[g].pc = "recv"
    /\ evq[g] # <<>>
    /\ Head(evq[g]).kind = "Error"
    /\ evq' = [evq EXCEPT ![g] = Tail(@)]
    /\ wat' = [wat EXCEPT ![g].pc = "done"]
    /\ last' = Last("watcher_error", NoPath, TRUE, FALSE, 0, <<>>)
    /\ UNCHANGED <<fs, main, cmdq, sup, assigned, count>>

\* DebouncedEvent::Error: the stop sentinel ends the thread, any other
\* error is logged
WatcherError(g) ==
    /\ wat[g].pc = "recv"
    /\ evq[g] # <<>>
    /\ Head(evq[g]).kind = "Error"
    /\ evq' = [evq EXCEPT ![g] = Tail(@)]
    /\ wat' = [wat EXCEPT ![g].pc = IF IsStopSentinel(Head(evq[g])) THEN "done" ELSE "recv"]
    /\ last' = Last("watcher_error", NoPath, TRUE, FALSE, 0, <<>>)
    /\ UNCHANGED <<fs, main, cmdq, sup, assigned, count>>

\* any other DebouncedEvent ("_ => {}")
WatcherOtherEvent(g) ==
    /\ wat[g].pc = "recv"
    /\ evq[g] # <<>>
    /\ Head(evq[g]).kind \notin {"Write", "Error"}
    /\ evq' = [evq EXCEPT ![g] = Tail(@)]
    /\ last' = Last("other_event", Head(evq[g]).path, TRUE, FALSE, 0, <<>>)
    /\ UNCHANGED <<fs, main, cmdq, sup, wat, assigned, count>>

(***************************************************************************)
(* watcher.rs: BackupMessage::Stop.                                        *)
(***************************************************************************)
\* a Stop whose sentinel overtakes the events that wait in the channel
SupStop_Urgent(g) ==
    /\ sup[g].pc = "recv"
    /\ cmdq[g] # <<>>
    /\ Head(cmdq[g]).type = "Stop"
    /\ cmdq' = [cmdq EXCEPT ![g] = Tail(@)]
    /\ evq' = [evq EXCEPT ![g] = IF sup[g].current_watcher_thread_tx
                                 THEN <<GenericError(STOP_WATCHER_ERROR)>> \o @
                                 ELSE @]
    /\ sup' = [sup EXCEPT ![g].pc = "join", ![g].current_watcher_thread_tx = FALSE]
    /\ last' = Last("stop", NoPath, TRUE, FALSE, 0, <<>>)
    /\ UNCHANGED <<fs, main, wat, assigned, count>>

\* the sentinel is sent to the watcher thread
SupStop(g) ==
    /\ sup[g].pc = "recv"
    /\ cmdq[g] # <<>>
    /\ Head(cmdq[g]).type = "Stop"
    /\ cmdq' = [cmdq EXCEPT ![g] = Tail(@)]
    /\ evq' = [evq EXCEPT ![g] = IF sup[g].current_watcher_thread_tx
                                 THEN Append(@, GenericError(STOP_WATCHER_ERROR))
                                 ELSE @]
    /\ sup' = [sup EXCEPT ![g].pc = "join", ![g].current_watcher_thread_tx = FALSE]
    /\ last' = Last("stop", NoPath, TRUE, FALSE, 0, <<>>)
    /\ UNCHANGED <<fs, main, wat, assigned, count>>

\* a supervisor that reports "Stopped" without joining the watcher thread
SupJoin_Eager(g) ==
    /\ sup[g].pc = "join"
    /\ sup' = [sup EXCEPT ![g].pc = "done", ![g].current_watcher_thread = FALSE,
                          ![g].status = Append(@, "Stopped")]
    /\ evq' = [evq EXCEPT ![g] = <<>>]
    /\ last' = Last("stopped", NoPath, TRUE, FALSE, 0, <<"Stopped">>)
    /\ UNCHANGED <<fs, main, cmdq, wat, assigned, count>>

\* join of the watcher thread returns, "Stopped" is sent, the thread returns:
\* its notify watcher and the event channel are dropped
SupJoin(g) ==
    /\ sup[g].pc = "join"
    /\ sup[g].current_watcher_thread => wat[g].pc = "done"
    /\ sup' = [sup EXCEPT ![g].pc = "done", ![g].current_watcher_thread = FALSE,
                          ![g].status = Append(@, "Stopped")]
    /\ evq' = [evq EXCEPT ![g] = <<>>]
    /\ last' = Last("stopped", NoPath, TRUE, FALSE, 0, <<"Stopped">>)
    /\ UNCHANGED <<fs, main, cmdq, wat, assigned, count>>

(***************************************************************************)
(* main.rs: the handlers of the UI loop.                                   *)
(***************************************************************************)
\* the backup thread has returned or panicked: the receiver of its
\* BackupMessage channel is dropped and a send on the channel fails
ReceiverDropped(g) == sup[g].pc \in {"done", "failed", "panicked"}

\* UiMessage::MenuSettings: stop_backup_thread, then the settings window
MenuSettings ==
    /\ main.pc = "idle"
    /\ ~main.quitting
    /\ ~main.settings_win
    /\ main.backup_thread # 0
    /\ main.backup_thread_tx # 0
    /\ ~ReceiverDropped(main.backup_thread_tx)
    /\ count.inputs < MaxInputs
    /\ count' = [count EXCEPT !.inputs = @ + 1]
    /\ cmdq' = [cmdq EXCEPT ![main.backup_thread_tx] = Append(@, [type |-> "Stop"])]
    /\ main' = [main EXCEPT !.backup_thread = 0, !.settings_win = TRUE]
    /\ last' = Last("menu_settings", NoPath, TRUE, FALSE, 0, <<>>)
    /\ UNCHANGED <<fs, sup, evq, wat, assigned>>

\* UiMessage::MenuSettings when the backup thread is gone: the send of
\* BackupMessage::Stop in stop_backup_thread fails and the UI thread panics
MenuSettingsPanic ==
    /\ main.pc = "idle"
    /\ ~main.quitting
    /\ ~main.settings_win
    /\ main.backup_thread # 0
    /\ main.backup_thread_tx # 0
    /\ ReceiverDropped(main.backup_thread_tx)
    /\ count.inputs < MaxInputs
    /\ count' = [count EXCEPT !.inputs = @ + 1]
    /\ main' = [main EXCEPT !.pc = "panicked"]
    /\ last' = Last("menu_settings", NoPath, FALSE, FALSE, 0, <<>>)
    /\ UNCHANGED <<fs, cmdq, sup, evq, wat, assigned>>

\* the settings the user can accept in the settings window
SettingsChoices == {main.settings}

\* UiMessage::SettingsOk with valid settings: start_backup_thread, then
\* backup_all_changed_files up to its loop
SettingsOkOf(choices) ==
    /\ main.pc = "idle"
    /\ ~main.quitting
    /\ main.settings_win
    /\ main.started < MaxRuns
    /\ main.backup_thread = 0
    /\ count.inputs < MaxInputs
    /\ count' = [count EXCEPT !.inputs = @ + 1]
    /\ \E s \in choices :
          /\ cmdq' = [cmdq EXCEPT ![main.started + 1] = <<[type |-> "Run", settings |-> s]>>]
          /\ main' = [main EXCEPT !.settings = s, !.settings_win = FALSE,
                                  !.started = @ + 1, !.backup_thread = main.started + 1,
                                  !.backup_thread_tx = main.started + 1,
                                  !.pc = "batch", !.live_file_paths = get_live_files(s, fs)]
    /\ sup' = [sup EXCEPT ![main.started + 1].pc = "recv"]
    /\ last' = Last("settings_ok", NoPath, TRUE, FALSE, 0, <<>>)
    /\ UNCHANGED <<fs, evq, wat, assigned>>

\* UiMessage::SettingsOk, the user left the settings as they were
SettingsOk == SettingsOkOf(SettingsChoices)

\* other settings the user can enter: a pattern for b.db alone and a retain
\* count of 1
NewSettings == Settings(<<BackupFilePattern(DirXW, <<"*", "b", ".", "d", "b">>)>>, 1)

\* UiMessage::SettingsOk, the user kept the settings or entered NewSettings
SettingsOkChanged == SettingsOkOf({main.settings, NewSettings})

\* handle_file_error: where the UI thread is after the error of result
AfterFileError(result) == IF result.err = "FWarning" THEN "batch" ELSE "fatal"

\* one round of the loop of backup_all_changed_files; an error leaves the
\* loop ("?") and goes to handle_file_error
BatchStep ==
    /\ main.pc = "batch"
    /\ main.live_file_paths # <<>>
    /\ \E keep_mtime \in BOOLEAN :
          LET live_file_path == Head(main.live_file_paths)
              has_backup == live_file_has_backup(main.settings, fs, live_file_path)
              backed_up == back_up_live_file(main.settings, fs, live_file_path, keep_mtime)
              pruned == delete_old_backups(main.settings, backed_up.fs)
          IN  IF ~has_backup.ok
              THEN /\ main' = [main EXCEPT !.live_file_paths = <<>>,
                                           !.pc = AfterFileError(has_backup)]
                   /\ last' = Last("batch", live_file_path, FALSE, FALSE, 0,
                                   handle_error(has_backup))
                   /\ UNCHANGED <<fs, assigned>>
              ELSE IF ~ShouldBackUp(has_backup.val)
              THEN /\ main' = [main EXCEPT !.live_file_paths = Tail(@)]
                   /\ last' = Last("batch", live_file_path, TRUE, TRUE, 0, <<>>)
                   /\ UNCHANGED <<fs, assigned>>
              ELSE IF ~backed_up.ok
              THEN /\ main' = [main EXCEPT !.live_file_paths = <<>>,
                                           !.pc = AfterFileError(backed_up)]
                   /\ fs' = backed_up.fs
                   /\ last' = Last("batch", live_file_path, FALSE, FALSE, 0,
                                   handle_error(backed_up))
                   /\ UNCHANGED assigned
              ELSE /\ main' = [main EXCEPT !.live_file_paths =
                                              IF pruned.ok THEN Tail(@) ELSE <<>>,
                                           !.pc = IF pruned.ok THEN "batch"
                                                  ELSE AfterFileError(pruned)]
                   /\ fs' = pruned.fs
                   /\ assigned' = Record(assigned, backed_up)
                   /\ last' = Last("batch", live_file_path, pruned.ok, FALSE,
                                   backed_up.version, handle_error(pruned))
    /\ UNCHANGED <<cmdq, sup, evq, wat, count>>

\* SettingsOk after backup_all_changed_files: delete_old_backups and the
\* RefreshFilesLists pushed to the internal queue
BatchEnd ==
    /\ main.pc = "batch"
    /\ main.live_file_paths = <<>>
    /\ LET result == delete_old_backups(main.settings, fs)
       IN  /\ fs' = result.fs
           /\ last' = Last("batch_prune", NoPath, result.ok, FALSE, 0,
                           handle_error(result) \o <<"RefreshFilesLists">>)
    /\ main' = [main EXCEPT !.pc = "idle"]
    /\ UNCHANGED <<cmdq, sup, evq, wat, assigned, count>>

(***************************************************************************)
(* backup_all_changed_files step by step on the UI thread: the duplicate   *)
(* check, then the steps of back_up_live_file, then delete_old_backups.    *)
(* "?" returns the first error to SettingsOk, whose handle_file_error      *)
(* shows a warning and goes on, and ends the program on any other error.   *)
(***************************************************************************)
\* the loop is left with the error of result
BatchAbort(result, live_file_path) ==
    /\ main' = [main EXCEPT !.live_file_paths = <<>>, !.pc = AfterFileError(result),
                            !.next_version = 0]
    /\ last' = Last("batch", live_file_path, FALSE, FALSE, 0, handle_error(result))

\* live_file_has_backup of the next live file
BatchCheck ==
    /\ main.pc = "batch"
    /\ main.live_file_paths # <<>>
    /\ LET live_file_path == Head(main.live_file_paths)
           has_backup == live_file_has_backup(main.settings, fs, live_file_path)
       IN  IF ~has_backup.ok THEN BatchAbort(has_backup, live_file_path)
           ELSE IF ~ShouldBackUp(has_backup.val)
           THEN /\ main' = [main EXCEPT !.live_file_paths = Tail(@)]
                /\ last' = Last("batch", live_file_path, TRUE, TRUE, 0, <<>>)
           ELSE /\ main' = [main EXCEPT !.pc = "batch_copy"]
                /\ last' = Last("batch_check", live_file_path, TRUE, FALSE, 0, <<>>)
    /\ UNCHANGED <<fs, cmdq, sup, evq, wat, assigned, count>>

\* back_up_live_file: create_dir and copy
BatchCopy(fault) ==
    /\ main.pc = "batch_copy"
    /\ \E keep_mtime \in BOOLEAN :
          LET live_file_path == Head(main.live_file_paths)
              result == BackUpCopyStep(main.settings, fs, live_file_path, keep_mtime, fault)
          IN  /\ fs' = result.fs
              /\ IF ~result.ok THEN BatchAbort(result, live_file_path)
                 ELSE /\ main' = [main EXCEPT !.pc = "batch_stamp"]
                      /\ last' = Last("batch_copy", live_file_path, TRUE, FALSE, 0, <<>>)
    /\ UNCHANGED <<cmdq, sup, evq, wat, assigned, count>>

\* back_up_live_file: the live file's mtime is put on the copy
BatchStamp(fault) ==
    /\ main.pc = "batch_stamp"
    /\ LET live_file_path == Head(main.live_file_paths)
           result == BackUpStampStep(main.settings, fs, live_file_path, fault)
       IN  /\ fs' = result.fs
           /\ IF ~result.ok THEN BatchAbort(result, live_file_path)
              ELSE /\ main' = [main EXCEPT !.pc = "batch_number"]
                   /\ last' = Last("batch_stamp", live_file_path, TRUE, FALSE, 0, <<>>)
    /\ UNCHANGED <<cmdq, sup, evq, wat, assigned, count>>

\* back_up_live_file: next_backup_version
BatchNumber ==
    /\ main.pc = "batch_number"
    /\ main' = [main EXCEPT !.pc = "batch_rename",
                            !.next_version = BackUpNumberStep(main.settings, fs,
                                                              Head(main.live_file_paths))]
    /\ last' = Last("batch_number", Head(main.live_file_paths), TRUE, FALSE, 0, <<>>)
    /\ UNCHANGED <<fs, cmdq, sup, evq, wat, assigned, count>>

\* back_up_live_file: rename, the version is published
BatchRename(fault) ==
    /\ main.pc = "batch_rename"
    /\ LET live_file_path == Head(main.live_file_paths)
           result == BackUpPublishStep(main.settings, fs, live_file_path,
                                       main.next_version, fault)
       IN  /\ fs' = result.fs
           /\ assigned' = Record(assigned, result)
           /\ IF ~result.ok THEN BatchAbort(result, live_file_path)
              ELSE /\ main' = [main EXCEPT !.pc = "batch_prune", !.next_version = 0]
                   /\ last' = Last("batch_back_up", live_file_path, TRUE, FALSE,
                                   result.version, <<>>)
    /\ UNCHANGED <<cmdq, sup, evq, wat, count>>

\* delete_old_backups behind the back up, then the next round of the loop
BatchPrune ==
    /\ main.pc = "batch_prune"
    /\ LET live_file_path == Head(main.live_file_paths)
           result == delete_old_backups(main.settings, fs)
       IN  /\ fs' = result.fs
           /\ IF ~result.ok THEN BatchAbort(result, live_file_path)
              ELSE /\ main' = [main EXCEPT !.pc = "batch", !.live_file_paths = Tail(@)]
                   /\ last' = Last("batch_prune_one", live_file_path, TRUE, FALSE, 0, <<>>)
    /\ UNCHANGED <<cmdq, sup, evq, wat, assigned, count>>

\* the rows of the list of backed up files the user selects: one row
Selections(backed_up_files) == {<<i>> : i \in 1..Len(backed_up_files)}

SelectedPaths(backed_up_files, sel) == [i \in 1..Len(sel) |-> backed_up_files[sel[i]]]

\* get_selected_backed_up_paths: the paths of the selected rows
Selected(backed_up_files) ==
    {SelectedPaths(backed_up_files, sel) : sel \in Selections(backed_up_files)}

\* where the UI loop is after a handler whose file operation returned
\* result: handle_file_error ends the program unless the error is an FWarning
AfterHandler(result) ==
    IF result.ok \/ result.err = "FWarning" THEN "idle" ELSE "fatal"

\* UiMessage::RestoreBackup with one of the given selections
RestoreBackupOf(selections) ==
    /\ main.pc = "idle"
    /\ ~main.quitting
    /\ ~main.settings_win
    /\ count.inputs < MaxInputs
    /\ \A g \in Threads : Watching(g) => Len(evq[g]) < MaxQueue
    /\ \E selected_backup_paths \in selections, keep_mtime \in BOOLEAN :
          LET result == restore_backed_up_files(main.settings, fs, selected_backup_paths,
                                                keep_mtime)
          IN  /\ fs' = result.fs
              /\ evq' = NotifiedAll(evq, result.restored)
              /\ main' = [main EXCEPT !.pc = AfterHandler(result)]
              /\ last' = [op |-> "restore", path |-> selected_backup_paths, ok |-> result.ok,
                          dup |-> FALSE, version |-> 0,
                          sent |-> handle_error(result) \o <<"RefreshFilesLists">>,
                          restored |-> result.restored]
    /\ count' = [count EXCEPT !.inputs = @ + 1]
    /\ UNCHANGED <<cmdq, sup, wat, assigned>>

\* UiMessage::RestoreBackup with one row selected
RestoreBackup == RestoreBackupOf(Selected(get_backed_up_files(main.settings, fs)))

\* UiMessage::DeleteBackup with one of the given selections, confirmed by
\* the user
DeleteBackupOf(selections) ==
    /\ main.pc = "idle"
    /\ ~main.quitting
    /\ ~main.settings_win
    /\ count.inputs < MaxInputs
    /\ \E selected_backup_paths \in selections :
          LET result == delete_backed_up_files(fs, selected_backup_paths)
          IN  /\ fs' = result.fs
              /\ main' = [main EXCEPT !.pc = AfterHandler(result)]
              /\ last' = [op |-> "delete", path |-> selected_backup_paths, ok |-> result.ok,
                          dup |-> FALSE, version |-> 0,
                          sent |-> handle_error(result) \o <<"RefreshFilesLists">>]
    /\ count' = [count EXCEPT !.inputs = @ + 1]
    /\ UNCHANGED <<cmdq, sup, evq, wat, assigned>>

\* UiMessage::DeleteBackup with one row selected
DeleteBackup == DeleteBackupOf(Selected(get_backed_up_files(main.settings, fs)))

\* largest number of rows the user selects at once
MaxSelect == 2

\* the selections of up to MaxSelect rows; get_selected_backed_up_paths
\* yields the selected rows from the top of the list down
RowSelections(backed_up_files) ==
    {sel \in UNION {[1..n -> 1..Len(backed_up_files)] : n \in 1..MaxSelect} :
        \A i \in 1..(Len(sel) - 1) : sel[i] < sel[i + 1]}

SelectedRows(backed_up_files) ==
    {SelectedPaths(backed_up_files, sel) : sel \in RowSelections(backed_up_files)}

\* UiMessage::RestoreBackup with several rows selected
RestoreMany == RestoreBackupOf(SelectedRows(get_backed_up_files(main.settings, fs)))

\* UiMessage::DeleteBackup with several rows selected
DeleteMany == DeleteBackupOf(SelectedRows(get_backed_up_files(main.settings, fs)))

(***************************************************************************)
(* main.rs: startup without a backup thread, the assertions of             *)
(* stop_backup_thread, the status messages, and the graceful quit.         *)
(***************************************************************************)
\* main: get_settings returned SWarning or SNotFound(Some): the settings are
\* kept, the settings window is shown, no backup thread is started
StartupWarning ==
    /\ main.pc = "start"
    /\ main' = [main EXCEPT !.pc = "idle", !.settings_win = TRUE]
    /\ last' = Last("start", NoPath, FALSE, FALSE, 0, <<>>)
    /\ UNCHANGED <<fs, cmdq, sup, evq, wat, assigned, count>>

\* a stop_backup_thread without its assertions: Stop is sent again through
\* the command sender main still holds
MenuSettings_StopAgain ==
    /\ main.pc = "idle"
    /\ ~main.quitting
    /\ main.lock = "free"
    /\ main.backup_thread = 0
    /\ count.inputs < MaxInputs
    /\ count' = [count EXCEPT !.inputs = @ + 1]
    /\ IF main.backup_thread_tx = 0 \/ ReceiverDropped(main.backup_thread_tx)
       THEN /\ main' = [main EXCEPT !.pc = "panicked", !.lock = "poisoned"]
            /\ UNCHANGED cmdq
       ELSE /\ cmdq' = [cmdq EXCEPT ![main.backup_thread_tx] = Append(@, [type |-> "Stop"])]
            /\ main' = [main EXCEPT !.settings_win = TRUE]
    /\ last' = Last("menu_settings", NoPath, FALSE, FALSE, 0, <<>>)
    /\ UNCHANGED <<fs, sup, evq, wat, assigned>>

\* UiMessage::MenuSettings while main holds no backup thread handle: the
\* first assertion of stop_backup_thread fails and the UI thread panics
MenuSettingsIllegalState ==
    /\ main.pc = "idle"
    /\ ~main.quitting
    /\ main.lock = "free"
    /\ main.backup_thread = 0
    /\ count.inputs < MaxInputs
    /\ count' = [count EXCEPT !.inputs = @ + 1]
    /\ main' = [main EXCEPT !.pc = "panicked", !.lock = "poisoned"]
    /\ last' = Last("menu_settings", NoPath, FALSE, FALSE, 0, <<"illegal state">>)
    /\ UNCHANGED <<fs, cmdq, sup, evq, wat, assigned>>

\* the number of SetStatus messages the backup threads have sent
RECURSIVE StatusSentBy(_)
StatusSentBy(g) == IF g = 0 THEN 0 ELSE Len(sup[g].status) + StatusSentBy(g - 1)

StatusSent == StatusSentBy(MaxRuns)

\* UiMessage::SetStatus: the UI thread takes the lock of the main state; a
\* poisoned lock makes lock().unwrap() panic
SetStatusLock ==
    /\ main.pc = "idle"
    /\ main.handled < StatusSent
    /\ main' = IF main.lock = "poisoned" THEN [main EXCEPT !.pc = "panicked"]
               ELSE [main EXCEPT !.pc = "set_status", !.lock = "ui"]
    /\ last' = Last("set_status", NoPath, main.lock # "poisoned", FALSE, 0, <<>>)
    /\ UNCHANGED <<fs, cmdq, sup, evq, wat, assigned, count>>

\* UiMessage::SetStatus: set_status, and the lock is released at the end of
\* the match arm
SetStatusUnlock ==
    /\ main.pc = "set_status"
    /\ main' = [main EXCEPT !.pc = "idle", !.lock = "free", !.handled = @ + 1]
    /\ last' = Last("set_status_done", NoPath, TRUE, FALSE, 0, <<>>)
    /\ UNCHANGED <<fs, cmdq, sup, evq, wat, assigned, count>>

\* UiMessage::AppQuit, MenuQuit or SettingsQuit: quitting is set and
\* start_graceful_quit(main_state, 0) spawns the quit thread
UiQuit ==
    /\ main.pc = "idle"
    /\ ~main.quitting
    /\ main.quit = "none"
    /\ count.inputs < MaxInputs
    /\ count' = [count EXCEPT !.inputs = @ + 1]
    /\ main' = [main EXCEPT !.quitting = TRUE, !.quit = "try_lock", !.exit_code = 0]
    /\ last' = Last("quit", NoPath, TRUE, FALSE, 0, <<>>)
    /\ UNCHANGED <<fs, cmdq, sup, evq, wat, assigned>>

\* the thread of start_graceful_quit: try_lock (panic when the lock is not
\* free), then, when a backup thread handle is held, stop_backup_thread
\* (panic when the send of Stop fails, which poisons the lock) and the lock
\* is dropped; without a handle, exit
QuitTryLock ==
    /\ main.quit = "try_lock"
    /\ main.pc # "exited"
    /\ IF main.lock # "free"
       THEN /\ main' = [main EXCEPT !.quit = "panicked"]
            /\ last' = Last("quit_try_lock", NoPath, FALSE, FALSE, 0, <<"illegal state">>)
            /\ UNCHANGED cmdq
       ELSE IF main.backup_thread = 0
       THEN /\ main' = [main EXCEPT !.quit = "done", !.pc = "exited"]
            /\ last' = Last("exit", NoPath, TRUE, FALSE, 0, <<>>)
            /\ UNCHANGED cmdq
       ELSE IF ReceiverDropped(main.backup_thread_tx)
       THEN /\ main' = [main EXCEPT !.quit = "panicked", !.lock = "poisoned"]
            /\ last' = Last("quit_stop", NoPath, FALSE, FALSE, 0, <<>>)
            /\ UNCHANGED cmdq
       ELSE /\ cmdq' = [cmdq EXCEPT ![main.backup_thread_tx] = Append(@, [type |-> "Stop"])]
            /\ main' = [main EXCEPT !.quit = "join", !.backup_thread = 0]
            /\ last' = Last("quit_stop", NoPath, TRUE, FALSE, 0, <<>>)
    /\ UNCHANGED <<fs, sup, evq, wat, assigned, count>>

\* the thread of start_graceful_quit: join of the backup thread returns, exit
QuitJoin ==
    /\ main.quit = "join"
    /\ main.pc # "exited"
    /\ ReceiverDropped(main.backup_thread_tx)
    /\ main' = [main EXCEPT !.quit = "done", !.pc = "exited"]
    /\ last' = Last("exit", NoPath, TRUE, FALSE, 0, <<>>)
    /\ UNCHANGED <<fs, cmdq, sup, evq, wat, assigned, count>>

(***************************************************************************)
(* restore_backed_up_files step by step on the UI thread: each system call *)
(* of a round of its loop is a step of its own, so that the watcher        *)
(* threads run between them.  The handler holds the lock of the main state *)
(* from its first step to its last.                                        *)
(***************************************************************************)
\* UiMessage::RestoreBackup up to the loop of restore_backed_up_files
RestoreSelect ==
    /\ main.pc = "idle"
    /\ ~main.quitting
    /\ ~main.settings_win
    /\ main.lock = "free"
    /\ count.inputs < MaxInputs
    /\ \E selected_backup_paths \in Selected(get_backed_up_files(main.settings, fs)) :
          /\ main' = [main EXCEPT !.pc = "restore_copy", !.lock = "ui",
                                  !.selected_backup_paths = selected_backup_paths]
          /\ last' = [op |-> "restore_select", path |-> selected_backup_paths, ok |-> TRUE,
                      dup |-> FALSE, version |-> 0, sent |-> <<>>]
    /\ count' = [count EXCEPT !.inputs = @ + 1]
    /\ UNCHANGED <<fs, cmdq, sup, evq, wat, assigned>>

\* "continue", or the end of a round: the next row, or the end of the
\* handler, which pushes RefreshFilesLists
RestoreNextRound(op, ok) ==
    LET rest == Tail(main.selected_backup_paths)
    IN  /\ main' = [main EXCEPT !.selected_backup_paths = rest,
                                !.backed_up_file_modified = 0,
                                !.pc = IF rest = <<>> THEN "idle" ELSE "restore_copy",
                                !.lock = IF rest = <<>> THEN "free" ELSE "ui"]
        /\ last' = [op |-> op, path |-> Head(main.selected_backup_paths), ok |-> ok,
                    dup |-> FALSE, version |-> 0,
                    sent |-> IF rest = <<>> THEN <<"RefreshFilesLists">> ELSE <<>>]

\* get_live_file_for_backed_up_file ("?" returns its error to the handler),
\* get_file_metadata of the backed up file, copy to the temp file
RestoreCopy ==
    /\ main.pc = "restore_copy"
    /\ LET backed_up_path == Head(main.selected_backup_paths)
           source == get_live_file_for_backed_up_file(main.settings, backed_up_path)
       IN  IF ~source.ok
           THEN /\ main' = [main EXCEPT !.selected_backup_paths = <<>>, !.lock = "free",
                                        !.pc = AfterHandler(source)]
                /\ last' = [op |-> "restore_copy", path |-> backed_up_path, ok |-> FALSE,
                            dup |-> FALSE, version |-> 0,
                            sent |-> handle_error(source) \o <<"RefreshFilesLists">>]
                /\ UNCHANGED fs
           ELSE \E keep_mtime \in BOOLEAN :
                   LET result == RestoreCopyStep(fs, backed_up_path, source.path, keep_mtime)
                   IN  /\ fs' = result.fs
                       /\ IF ~result.ok THEN RestoreNextRound("restore_copy", FALSE)
                          ELSE /\ main' = [main EXCEPT !.pc = "restore_stamp",
                                                       !.backed_up_file_modified = result.modified]
                               /\ last' = [op |-> "restore_copy", path |-> backed_up_path,
                                           ok |-> TRUE, dup |-> FALSE, version |-> 0,
                                           sent |-> <<>>]
    /\ UNCHANGED <<cmdq, sup, evq, wat, assigned, count>>

\* set_file_mtime of the temp file
RestoreStamp ==
    /\ main.pc = "restore_stamp"
    /\ LET backed_up_path == Head(main.selected_backup_paths)
           source == get_live_file_for_backed_up_file(main.settings, backed_up_path)
           result == RestoreStampStep(fs, backed_up_path, source.path,
                                      main.backed_up_file_modified)
       IN  /\ fs' = result.fs
           /\ IF ~result.ok THEN RestoreNextRound("restore_stamp", FALSE)
              ELSE /\ main' = [main EXCEPT !.pc = "restore_rename"]
                   /\ last' = [op |-> "restore_stamp", path |-> backed_up_path, ok |-> TRUE,
                               dup |-> FALSE, version |-> 0, sent |-> <<>>]
    /\ UNCHANGED <<cmdq, sup, evq, wat, assigned, count>>

\* rename of the temp file over the live file; the notify watchers of the
\* live file's directory see the new file
RestoreRename ==
    /\ main.pc = "restore_rename"
    /\ \A g \in Threads : Watching(g) => Len(evq[g]) < MaxQueue
    /\ LET backed_up_path == Head(main.selected_backup_paths)
           source == get_live_file_for_backed_up_file(main.settings, backed_up_path)
           result == RestoreRenameStep(fs, backed_up_path, source.path)
       IN  /\ fs' = result.fs
           /\ evq' = IF result.ok THEN Notified(evq, source.path) ELSE evq
           /\ RestoreNextRound("restore_rename", result.ok)
    /\ UNCHANGED <<cmdq, sup, wat, assigned, count>>

(***************************************************************************)
(* The watcher alone: back ups and prunes triggered by change events.      *)
(***************************************************************************)
NextWatch ==
    \/ Startup
    \/ \E g \in Threads : SupRun(g)
    \/ \E path \in LivePaths(main.settings), stamp \in Stamps : FsWrite(path, stamp)
    \/ \E g \in Threads : WatcherFileEvent(g)
    \/ \E g \in Threads : WatcherBackUp(g)
    \/ \E g \in Threads : WatcherPrune(g)

SpecWatch == Init /\ [][NextWatch]_vars

(***************************************************************************)
(* The watcher and a user who restores and deletes backed up files.        *)
(***************************************************************************)
NextUser ==
    \/ Startup
    \/ \E g \in Threads : SupRun(g)
    \/ \E path \in LivePaths(main.settings), stamp \in Stamps : FsWrite(path, stamp)
    \/ \E g \in Threads : WatcherFileEvent(g)
    \/ \E g \in Threads : WatcherBackUp(g)
    \/ \E g \in Threads : WatcherPrune(g)
    \/ RestoreBackup
    \/ DeleteBackup

SpecUser == Init /\ [][NextUser]_vars

(***************************************************************************)
(* The whole program: the UI loop, the backup threads, their watchers,     *)
(* started with the configuration of the scenarios.                        *)
(***************************************************************************)
InitScenario == InitState(ScenarioSettings, EmptyTree(ScenarioSettings))

\* the watcher and a user who visits the settings window: the backup thread
\* is stopped, a new one is started and the batch pass runs
NextSettings ==
    \/ Startup
    \/ \E path \in LivePaths(main.settings), stamp \in Stamps : FsWrite(path, stamp)
    \/ MenuSettings
    \/ SettingsOk
    \/ BatchStep
    \/ BatchEnd
    \/ \E g \in Threads : SupRun(g)
    \/ \E g \in Threads : SupStop(g)
    \/ \E g \in Threads : SupJoin(g)
    \/ \E g \in Threads : WatcherFileEvent(g)
    \/ \E g \in Threads : WatcherBackUp(g)
    \/ \E g \in Threads : WatcherPrune(g)
    \/ \E g \in Threads : WatcherError(g)

SpecSettings == InitScenario /\ [][NextSettings]_vars

Next ==
    \/ Startup
    \/ \E path \in LivePaths(main.settings), stamp \in Stamps : FsWrite(path, stamp)
    \/ MenuSettings
    \/ SettingsOk
    \/ BatchStep
    \/ BatchEnd
    \/ RestoreBackup
    \/ DeleteBackup
    \/ \E g \in Threads : SupRun(g)
    \/ \E g \in Threads : SupStop(g)
    \/ \E g \in Threads : SupJoin(g)
    \/ \E g \in Threads : WatcherFileEvent(g)
    \/ \E g \in Threads : WatcherBackUp(g)
    \/ \E g \in Threads : WatcherPrune(g)
    \/ \E g \in Threads : WatcherError(g)

Spec == InitScenario /\ [][Next]_vars

(***************************************************************************)
(* Stopping the backup thread: the settings window is opened while the     *)
(* watcher works.  No new backup thread is started, so the only one is the *)
(* thread started at startup; its two threads are scheduled fairly.        *)
(***************************************************************************)
NextStop ==
    \/ Startup
    \/ \E path \in LivePaths(main.settings), stamp \in Stamps : FsWrite(path, stamp)
    \/ MenuSettings
    \/ \E g \in Threads : SupRun(g)
    \/ \E g \in Threads : SupStop(g)
    \/ \E g \in Threads : SupJoin(g)
    \/ \E g \in Threads : WatcherFileEvent(g)
    \/ \E g \in Threads : WatcherBackUp(g)
    \/ \E g \in Threads : WatcherPrune(g)
    \/ \E g \in Threads : WatcherError(g)

\* backup_thread_main of thread g takes a step when it can
FairSupervisor(g) == WF_vars(SupRun(g) \/ SupStop(g) \/ SupJoin(g))

\* a step of on_file_change in watcher_thread_main of thread g, told by what
\* it does to the thread's position and channel: WatcherFileEvent(g),
\* WatcherBackUp(g) and WatcherPrune(g) are steps of this kind, they are
\* possible whenever it is, and no other action of the program is of this kind
WatcherTurn(g) ==
    \/ /\ wat[g].pc = "recv"
       /\ evq[g] # <<>>
       /\ Head(evq[g]).kind = "Write"
       /\ evq' = [evq EXCEPT ![g] = Tail(@)]
       /\ \/ wat' = [wat EXCEPT ![g] = [pc |-> "recv", file_path |-> NoPath, next_version |-> 0]]
          \/ wat' = [wat EXCEPT ![g] = [pc |-> "back_up", file_path |-> Head(evq[g]).path,
                                              next_version |-> 0]]
    \/ /\ wat[g].pc = "back_up"
       /\ wat' = [wat EXCEPT ![g].pc = "prune"]
       /\ UNCHANGED evq
    \/ /\ wat[g].pc = "prune"
       /\ wat' = [wat EXCEPT ![g] = [pc |-> "recv", file_path |-> NoPath, next_version |-> 0]]
       /\ UNCHANGED evq

\* watcher_thread_main of thread g takes a step when it can
FairWatcher(g) == WF_<<wat, evq>>(WatcherTurn(g) \/ WatcherError(g))

SpecStop ==
    /\ Init
    /\ [][NextStop]_vars
    /\ FairSupervisor(1)
    /\ FairWatcher(1)

\* on every step WatcherTurn(g) is true exactly when the step is one of the
\* three steps of on_file_change in thread g
WatcherTurnIsWatcherStep ==
    [][\A g \in Threads :
          WatcherTurn(g) <=> (WatcherFileEvent(g) \/ WatcherBackUp(g) \/ WatcherPrune(g))]_vars

(***************************************************************************)
(* One backup thread whose watcher backs up step by step, with I/O errors, *)
(* and is stopped by the settings window.                                  *)
(***************************************************************************)
NextSteps ==
    \/ Startup
    \/ \E path \in LivePaths(main.settings), stamp \in Stamps : FsWrite(path, stamp)
    \/ MenuSettings
    \/ \E g \in Threads : SupRun(g)
    \/ \E g \in Threads : SupStop(g)
    \/ \E g \in Threads : SupJoin(g)
    \/ \E g \in Threads : WatcherFileEvent(g)
    \/ \E g \in Threads, fault \in CopyFaults : WatcherCopy(g, fault)
    \/ \E g \in Threads, fault \in StampFaults : WatcherStamp(g, fault)
    \/ \E g \in Threads : WatcherNumber(g)
    \/ \E g \in Threads, fault \in RenameFaults : WatcherRename(g, fault)
    \/ \E g \in Threads : WatcherPrune(g)
    \/ \E g \in Threads : WatcherError(g)

SpecSteps == InitScenario /\ [][NextSteps]_vars

(***************************************************************************)
(* The settings window is visited while live files exist that have no      *)
(* version yet: the old watcher, the new watcher and the batch pass of the *)
(* UI thread back up step by step, side by side.  The batch pass runs with *)
(* I/O errors.                                                             *)
(***************************************************************************)
\* the directories, and every live file of the configuration written once
LiveTree(s) ==
    [p \in SourceDirs(s) \cup {DestRoot} \cup LivePaths(s) |->
        IF p \in LivePaths(s) THEN FileEntry(1, 1) ELSE DirEntry]

InitFiles == InitState(ScenarioSettings, LiveTree(ScenarioSettings))

NextRace ==
    \/ Startup
    \/ \E path \in LivePaths(main.settings), stamp \in Stamps : FsWrite(path, stamp)
    \/ MenuSettings
    \/ SettingsOk
    \/ BatchCheck
    \/ \E fault \in CopyFaults : BatchCopy(fault)
    \/ \E fault \in StampFaults : BatchStamp(fault)
    \/ BatchNumber
    \/ \E fault \in RenameFaults : BatchRename(fault)
    \/ BatchPrune
    \/ BatchEnd
    \/ \E g \in Threads : SupRun(g)
    \/ \E g \in Threads : SupStop(g)
    \/ \E g \in Threads : SupJoin(g)
    \/ \E g \in Threads : WatcherFileEvent(g)
    \/ \E g \in Threads : WatcherCopy(g, "none")
    \/ \E g \in Threads : WatcherStamp(g, "none")
    \/ \E g \in Threads : WatcherNumber(g)
    \/ \E g \in Threads : WatcherRename(g, "none")
    \/ \E g \in Threads : WatcherPrune(g)
    \/ \E g \in Threads : WatcherError(g)

SpecRace == InitFiles /\ [][NextRace]_vars

(***************************************************************************)
(* The settings round with a registration of the notify watcher that can  *)
(* fail.                                                                   *)
(***************************************************************************)
NextFail ==
    \/ Startup
    \/ \E path \in LivePaths(main.settings), stamp \in Stamps : FsWrite(path, stamp)
    \/ MenuSettings
    \/ MenuSettingsPanic
    \/ SettingsOk
    \/ BatchStep
    \/ BatchEnd
    \/ \E g \in Threads : SupRun(g)
    \/ \E g \in Threads, fault \in RunFaults : SupRunFault(g, fault)
    \/ \E g \in Threads : SupStop(g)
    \/ \E g \in Threads : SupJoin(g)
    \/ \E g \in Threads : WatcherFileEvent(g)
    \/ \E g \in Threads : WatcherBackUp(g)
    \/ \E g \in Threads : WatcherPrune(g)
    \/ \E g \in Threads : WatcherError(g)

SpecFail == InitScenario /\ [][NextFail]_vars

(***************************************************************************)
(* The settings round in which the user changes the settings.              *)
(***************************************************************************)
NextConfig ==
    \/ Startup
    \/ \E path \in LivePaths(main.settings) : FsWrite(path, <<1, 1>>)
    \/ MenuSettings
    \/ SettingsOkChanged
    \/ BatchStep
    \/ BatchEnd
    \/ \E g \in Threads : SupRun(g)
    \/ \E g \in Threads : SupStop(g)
    \/ \E g \in Threads : SupJoin(g)
    \/ \E g \in Threads : WatcherFileEvent(g)
    \/ \E g \in Threads : WatcherBackUp(g)
    \/ \E g \in Threads : WatcherPrune(g)
    \/ \E g \in Threads : WatcherError(g)

SpecConfig == InitScenario /\ [][NextConfig]_vars

(***************************************************************************)
(* The watcher with two patterns that both match a.db, on a destination    *)
(* that holds the version 1 of a file b (which only the second pattern     *)
(* matches) and a file a.db.c, whose suffix is no number.                  *)
(***************************************************************************)
TwoPatternSettings ==
    Settings(<<BackupFilePattern(DirXW, PatDb), BackupFilePattern(DirXW, PatB)>>, 2)

VersionOfB == Join(Join(DestRoot, FileName(DirXW)), <<"b", ".", "1">>)

StrayFile == Join(Join(DestRoot, FileName(DirXW)), NameA \o <<".", "c">>)

StrayTree(s) ==
    [p \in DOMAIN EmptyTree(s) \cup {Join(DestRoot, FileName(DirXW)), VersionOfB, StrayFile}
        |-> IF p = VersionOfB THEN FileEntry(1, 1)
            ELSE IF p = StrayFile THEN FileEntry(1, 2)
            ELSE DirEntry]

InitStray == InitState(TwoPatternSettings, StrayTree(TwoPatternSettings))

SpecStray == InitStray /\ [][NextWatch]_vars

(***************************************************************************)
(* One backup thread and every kind of event its watcher can receive:      *)
(* writes of configured files and of a file no pattern matches, removals,  *)
(* attribute changes, errors of the notify watcher, and the stop sentinel. *)
(***************************************************************************)
\* a file of the watched directory that no pattern matches
Unrelated == Join(DirXW, <<"c">>)

NextEvents ==
    \/ Startup
    \/ \E g \in Threads : SupRun(g)
    \/ \E path \in {Join(DirXW, NameA), Unrelated}, stamp \in Stamps : FsWrite(path, stamp)
    \/ \E path \in {Join(DirXW, NameA), Unrelated} : FsRemove(path)
    \/ \E path \in {Join(DirXW, NameA), Unrelated} : FsChmod(path)
    \/ \E g \in Threads, err \in NotifyErrors : WatchError(g, err)
    \/ MenuSettings
    \/ \E g \in Threads : SupStop(g)
    \/ \E g \in Threads : SupJoin(g)
    \/ \E g \in Threads : WatcherFileEvent(g)
    \/ \E g \in Threads : WatcherBackUp(g)
    \/ \E g \in Threads : WatcherPrune(g)
    \/ \E g \in Threads : WatcherError(g)
    \/ \E g \in Threads : WatcherOtherEvent(g)

SpecEvents == InitScenario /\ [][NextEvents]_vars

(***************************************************************************)
(* The watcher and a user who restores and deletes several rows at once,   *)
(* on a destination that holds entries the program did not make: a         *)
(* directory and a file whose names match the pattern of the versions.     *)
(***************************************************************************)
ForeignDir == Join(Join(DestRoot, FileName(DirXW)), NameA \o <<".", "0">>)

ForeignFile == Join(Join(DestRoot, FileName(DirXW)), NameA \o <<".", "0", ".", "1">>)

ForeignTree(s) ==
    [p \in DOMAIN EmptyTree(s) \cup {Join(DestRoot, FileName(DirXW)), ForeignDir, ForeignFile}
        |-> IF p = ForeignFile THEN FileEntry(2, 2) ELSE DirEntry]

InitForeign == InitState(ScenarioSettings, ForeignTree(ScenarioSettings))

NextSelect ==
    \/ Startup
    \/ \E g \in Threads : SupRun(g)
    \/ \E path \in LivePaths(main.settings), stamp \in Stamps : FsWrite(path, stamp)
    \/ \E g \in Threads : WatcherFileEvent(g)
    \/ \E g \in Threads : WatcherBackUp(g)
    \/ \E g \in Threads : WatcherPrune(g)
    \/ RestoreMany
    \/ DeleteMany

SpecSelect == InitForeign /\ [][NextSelect]_vars

(***************************************************************************)
(* The watcher backs up step by step while the user restores a version on  *)
(* the UI thread, step by step.                                            *)
(***************************************************************************)
NextRestore ==
    \/ Startup
    \/ \E g \in Threads : SupRun(g)
    \/ \E stamp \in Stamps : FsWrite(Join(DirXW, NameA), stamp)
    \/ \E g \in Threads : WatcherFileEvent(g)
    \/ \E g \in Threads : WatcherCopy(g, "none")
    \/ \E g \in Threads : WatcherStamp(g, "none")
    \/ \E g \in Threads : WatcherNumber(g)
    \/ \E g \in Threads : WatcherRename(g, "none")
    \/ \E g \in Threads : WatcherPrune(g)
    \/ RestoreSelect
    \/ RestoreCopy
    \/ RestoreStamp
    \/ RestoreRename

SpecRestore == InitScenario /\ [][NextRestore]_vars

(***************************************************************************)
(* Every message of the user that reaches the backup threads: the program  *)
(* starts with or without a backup thread, the user opens the settings     *)
(* window, accepts the settings, quits; the backup threads report their    *)
(* status to the UI thread.                                                *)
(***************************************************************************)
NextUi ==
    \/ Startup
    \/ StartupWarning
    \/ \E path \in LivePaths(main.settings) : FsWrite(path, <<1, 1>>)
    \/ MenuSettings
    \/ MenuSettingsIllegalState
    \/ SettingsOk
    \/ BatchStep
    \/ BatchEnd
    \/ SetStatusLock
    \/ SetStatusUnlock
    \/ UiQuit
    \/ QuitTryLock
    \/ QuitJoin
    \/ \E g \in Threads : SupRun(g)
    \/ \E g \in Threads : SupStop(g)
    \/ \E g \in Threads : SupJoin(g)
    \/ \E g \in Threads : WatcherFileEvent(g)
    \/ \E g \in Threads : WatcherBackUp(g)
    \/ \E g \in Threads : WatcherPrune(g)
    \/ \E g \in Threads : WatcherError(g)

SpecUi == InitScenario /\ [][NextUi]_vars

(***************************************************************************)
(* settings.rs: the configurations get_settings hands to main.  The        *)
(* settings file is JSON whose backup_count is any u8; the settings window *)
(* neither shows nor changes the count.                                    *)
(***************************************************************************)
\* read_settings: what serde_json accepts for backup_count, up to the bound
FileSettings == {Settings(<<BackupFilePattern(DirXW, PatDb)>>, n) : n \in 0..MaxRetain}

\* validate_settings: the source directories and the destination are looked
\* at, the backup_count is not
validate_settings(settings, fsys) ==
    /\ \A i \in 1..Len(settings.backup_patterns) :
          IsDir(fsys, settings.backup_patterns[i].source_dir)
    /\ settings.backup_dest_path # <<>>
    /\ IsDir(fsys, settings.backup_dest_path)

InitRead ==
    \E s \in FileSettings :
        /\ validate_settings(s, EmptyTree(s))
        /\ InitState(s, EmptyTree(s))

\* the watcher alone, started with any configuration that passes validation
SpecRetain == InitRead /\ [][NextWatch]_vars

(***************************************************************************)
(* The command channel of a running backup thread is closed: the UI thread *)
(* panics in a handler, main unwinds and drops the MainState with the only *)
(* sender of the BackupMessage channel.                                    *)
(***************************************************************************)
\* UiMessage::MenuAbout (and MenuDocumentation): todo!() panics the UI thread
MenuAbout ==
    /\ main.pc = "idle"
    /\ ~main.quitting
    /\ ~main.settings_win
    /\ count.inputs < MaxInputs
    /\ count' = [count EXCEPT !.inputs = @ + 1]
    /\ main' = [main EXCEPT !.pc = "panicked"]
    /\ last' = Last("menu_about", NoPath, FALSE, FALSE, 0, <<>>)
    /\ UNCHANGED <<fs, cmdq, sup, evq, wat, assigned>>

\* every sender of the BackupMessage channel of thread g is gone: the
\* MainState that held it was dropped, no quit thread holds the state
SenderDropped(g) ==
    /\ main.pc = "panicked"
    /\ main.quit = "none"
    /\ main.backup_thread_tx = g

\* backup_thread_main whose recv fails: SetStatus Error, the thread returns
\* and drops the notify watcher and its own sender of the event channel
SupClosed(g) ==
    /\ sup[g].pc = "recv"
    /\ cmdq[g] = <<>>
    /\ SenderDropped(g)
    /\ sup' = [sup EXCEPT ![g].pc = "closed", ![g].current_watcher = FALSE,
                          ![g].current_watcher_thread = FALSE,
                          ![g].current_watcher_thread_tx = FALSE,
                          ![g].status = Append(@, "Error")]
    /\ last' = Last("closed", NoPath, FALSE, FALSE, 0, <<"Error">>)
    /\ UNCHANGED <<fs, main, cmdq, evq, wat, assigned, count>>

\* the recv of watcher_thread_main fails, the events that waited in the
\* channel being handled: no sender is left
WatcherRecvFails(g) ==
    /\ wat[g].pc = "recv"
    /\ evq[g] = <<>>
    /\ sup[g].pc = "closed"

\* watcher_thread_main at a failed recv: panic!("Watcher error: {}")
WatcherClosed(g) ==
    /\ WatcherRecvFails(g)
    /\ wat' = [wat EXCEPT ![g].pc = "panicked"]
    /\ last' = Last("watcher_closed", NoPath, FALSE, FALSE, 0, <<>>)
    /\ UNCHANGED <<fs, main, cmdq, sup, evq, assigned, count>>

NextClosed ==
    \/ Startup
    \/ \E path \in LivePaths(main.settings), stamp \in Stamps : FsWrite(path, stamp)
    \/ MenuAbout
    \/ \E g \in Threads : SupRun(g)
    \/ \E g \in Threads : SupClosed(g)
    \/ \E g \in Threads : WatcherFileEvent(g)
    \/ \E g \in Threads : WatcherBackUp(g)
    \/ \E g \in Threads : WatcherPrune(g)
    \/ \E g \in Threads : WatcherClosed(g)

SpecClosed == InitScenario /\ [][NextClosed]_vars

(***************************************************************************)
(* The user quits while the backup thread starts, works, or has ended with *)
(* a failed registration.  Every thread of the program is scheduled        *)
(* fairly: the supervisor and the watcher of the thread started at         *)
(* startup, the UI thread's handling of status messages, the quit thread.  *)
(***************************************************************************)
NextQuit ==
    \/ Startup
    \/ \E path \in LivePaths(main.settings) : FsWrite(path, <<1, 1>>)
    \/ SetStatusLock
    \/ SetStatusUnlock
    \/ UiQuit
    \/ QuitTryLock
    \/ QuitJoin
    \/ \E g \in Threads : SupRun(g)
    \/ \E g \in Threads, fault \in RunFaults : SupRunFault(g, fault)
    \/ \E g \in Threads : SupStop(g)
    \/ \E g \in Threads : SupJoin(g)
    \/ \E g \in Threads : WatcherFileEvent(g)
    \/ \E g \in Threads : WatcherBackUp(g)
    \/ \E g \in Threads : WatcherPrune(g)
    \/ \E g \in Threads : WatcherError(g)

\* the UI thread handles the status messages it was sent
FairUi == WF_vars(SetStatusLock \/ SetStatusUnlock)

\* the thread of start_graceful_quit takes a step when it can
FairQuit == WF_vars(QuitTryLock \/ QuitJoin)

SpecQuit ==
    /\ InitScenario
    /\ [][NextQuit]_vars
    /\ FairSupervisor(1)
    /\ FairWatcher(1)
    /\ FairUi
    /\ FairQuit

(***************************************************************************)
(* What the properties speak about: the versions of an identity, read off  *)
(* the file names.  A version of the stripped path key is a file named     *)
(* key, a dot, digits.                                                     *)
(***************************************************************************)
IsVersionOf(p, key) ==
    /\ Len(p) > Len(key) + 1
    /\ SubSeq(p, 1, Len(key)) = key
    /\ p[Len(key) + 1] = "."
    /\ \A i \in (Len(key) + 2)..Len(p) : IsDigit(p[i])

VersionNumber(p, key) == DecimalValue(SubSeq(p, Len(key) + 2, Len(p)))

VersionFilesOf(fsys, key) == {p \in DOMAIN fsys : IsFile(fsys, p) /\ IsVersionOf(p, key)}

VersionsOf(fsys, key) == {VersionNumber(p, key) : p \in VersionFilesOf(fsys, key)}

\* the identity of a live file: <dest_root>/<folder name>/<file name>
IdentityOf(live_file_path) ==
    Join(Join(DestRoot, FileName(Parent(live_file_path))), FileName(live_file_path))

Identities == {IdentityOf(p) : p \in LivePaths(main.settings)}

Min(a, b) == IF a < b THEN a ELSE b

Max(a, b) == IF a < b THEN b ELSE a

\* the path of version n of a live file
VersionPath(live_file_path, n) == IdentityOf(live_file_path) \o <<".">> \o FormatU32(n)

\* the highest version number of a key, 0 when it has no version
Highest(fsys, key) ==
    LET numbers == {0} \cup VersionsOf(fsys, key)
    IN  CHOOSE n \in numbers : \A m \in numbers : m <= n

\* the part of the file system below the backup destination
DestTree(fsys) ==
    [p \in {q \in DOMAIN fsys : Len(q) > Len(DestRoot) /\ SubSeq(q, 1, Len(DestRoot)) = DestRoot}
        |-> fsys[p]]

NoRepeat(numbers) == \A i, j \in 1..Len(numbers) : i # j => numbers[i] # numbers[j]

\* C1: for every identity, each version number a back up assigns is larger
\* than every number assigned to that identity before (back ups and prunes
\* only, retain count >= 1).
C1_Monotone ==
    \A key \in DOMAIN assigned :
        \A i, j \in 1..Len(assigned[key]) : i < j => assigned[key][i] < assigned[key][j]

C3_PruneKeepsNewest ==
    [][\A g \in Threads :
          (wat[g].pc = "prune" /\ wat'[g].pc = "recv") =>
             \A key \in Identities :
                LET before == VersionsOf(fs, key)
                    after == VersionsOf(fs', key)
                IN  /\ after \subseteq before
                    /\ Cardinality(after) = Min(sup[g].settings.backup_count, Cardinality(before))
                    /\ \A a \in after, b \in before \ after : b < a]_vars

C8_NumberedInOrder ==
    \A key \in DOMAIN assigned :
        LET k == Len(assigned[key])
        IN  /\ assigned[key] = [i \in 1..k |-> i]
            /\ (\A g \in Threads : wat[g].pc \in {"none", "recv"}) =>
                   VersionsOf(fs, key) = Max(1, k - main.settings.backup_count + 1)..k

\* C5: the duplicate check of a live file is true exactly when a version of
\* the live file's own identity has the size and the modification time of
\* the live file; the versions of another file under the same pattern do
\* not count.
C5_DuplicateIffOwnVersion ==
    (last.op = "on_file_change" /\ last.ok /\ IsFile(fs, last.path)) =>
        (last.dup <=>
            \E p \in VersionFilesOf(fs, IdentityOf(last.path)) :
                /\ fs[p].len = fs[last.path].len
                /\ fs[p].modified = fs[last.path].modified)

\* C6: a successful restore of the highest version of an identity leaves, at
\* the resolved live path, a file with the size and the modification time of
\* that version, and leaves the version file as it was.
C6_RestoreHighest ==
    [][(last'.op = "restore" /\ last'.ok /\ count'.inputs = count.inputs + 1) =>
          \A i \in 1..Len(last'.path) :
             LET backed_up_path == last'.path[i]
                 key == strip_version_suffix_from_backed_up_file_path(backed_up_path).path
                 live == get_live_file_for_backed_up_file(main.settings, backed_up_path)
             IN  get_backed_up_version_number(backed_up_path) = Highest(fs, key) =>
                    /\ live.ok
                    /\ IsFile(fs', live.path)
                    /\ fs'[live.path].len = fs[backed_up_path].len
                    /\ fs'[live.path].modified = fs[backed_up_path].modified
                    /\ IsFile(fs', backed_up_path)
                    /\ fs'[backed_up_path] = fs[backed_up_path]]_vars

\* the second of two versions has just been restored over a live file, and
\* the live file now carries its size and modification time
C6_Witness ==
    /\ last.op = "restore"
    /\ last.ok
    /\ \E key \in Identities :
          /\ Cardinality(VersionsOf(fs, key)) = 2
          /\ last.path = <<key \o <<".">> \o FormatU32(Highest(fs, key))>>
          /\ LET live == get_live_file_for_backed_up_file(main.settings, last.path[1]).path
             IN  /\ IsFile(fs, live)
                 /\ fs[live].len = fs[last.path[1]].len
                 /\ fs[live].modified = fs[last.path[1]].modified

\* C7: the version path a back up of live file L publishes resolves back to
\* L, whatever the list of patterns is.
C7_RoundTrip ==
    (last.op = "back_up" /\ last.ok) =>
        LET resolved == get_live_file_for_backed_up_file(main.settings,
                            VersionPath(last.path, last.version))
        IN  resolved.ok /\ resolved.path = last.path

\* C9: a change event or a round of the batch pass that finds the duplicate
\* check true leaves the destination tree as it is, makes no version and
\* removes none, and the watcher sends no RefreshFilesLists for the event.
C9_DuplicateChangesNothing ==
    [][/\ \A g \in Threads :
             (/\ wat[g].pc = "recv"
              /\ evq[g] # <<>>
              /\ Head(evq[g]).kind = "Write"
              /\ evq'[g] = Tail(evq[g])
              /\ last'.op = "on_file_change"
              /\ live_file_has_backup(sup[g].settings, fs, Head(evq[g]).path).ok
              /\ live_file_has_backup(sup[g].settings, fs, Head(evq[g]).path).val)
             => /\ DestTree(fs') = DestTree(fs)
                /\ wat'[g].pc = "recv"
                /\ last'.sent = <<>>
       /\ (/\ main.pc = "batch"
           /\ main.live_file_paths # <<>>
           /\ main'.live_file_paths # main.live_file_paths
           /\ live_file_has_backup(main.settings, fs, Head(main.live_file_paths)).ok
           /\ live_file_has_backup(main.settings, fs, Head(main.live_file_paths)).val)
          => /\ DestTree(fs') = DestTree(fs)
             /\ main'.live_file_paths = Tail(main.live_file_paths)]_vars

\* the batch pass has just skipped a live file that has a version with its
\* size and modification time
C9_Witness ==
    /\ last.op = "batch"
    /\ last.dup
    /\ main.pc = "batch"
    /\ \E p \in VersionFilesOf(fs, IdentityOf(last.path)) :
          /\ fs[p].len = fs[last.path].len
          /\ fs[p].modified = fs[last.path].modified

\* Stop is waiting at a Running supervisor whose watcher has no pending
\* file system event
StopSent(g) ==
    /\ sup[g].pc = "recv"
    /\ sup[g].current_watcher_thread
    /\ cmdq[g] # <<>>
    /\ Head(cmdq[g]).type = "Stop"
    /\ evq[g] = <<>>

\* the watcher thread has ended, "Stopped" was reported, the supervisor
\* thread has ended
Stopped(g) ==
    /\ wat[g].pc = "done"
    /\ sup[g].pc = "done"
    /\ sup[g].status # <<>>
    /\ sup[g].status[Len(sup[g].status)] = "Stopped"

\* C10: when Stop is sent to a Running supervisor whose watcher has no
\* pending file system events, eventually the watcher has taken the sentinel
\* and ended, the join has returned, Stopped is reported and the supervisor
\* thread has ended (both threads scheduled fairly).
C10_StopCompletes == StopSent(1) ~> Stopped(1)

\* a backup thread that backed up a file was stopped and has ended
C10_Witness ==
    Stopped(1) /\ assigned # <<>> /\ sup[1].status = <<"Running", "Stopped">>

\* a is an initial part of b
IsPrefix(a, b) == Len(a) <= Len(b) /\ SubSeq(b, 1, Len(a)) = a

\* C11: the watcher's channel is FIFO and the sentinel travels in it: what is
\* sent goes behind what waits, the watcher takes the head and only at its
\* receive point, a Create/Write event it takes is handled, it ends only by
\* taking the sentinel from the head (so everything sent before the sentinel
\* was taken and handled before), and once it has ended it takes nothing.
C11_SentinelInOrder ==
    [][\A g \in Threads :
          /\ evq'[g] # evq[g] =>
                \/ /\ wat[g].pc = "recv"
                   /\ evq[g] # <<>>
                   /\ evq'[g] = Tail(evq[g])
                   /\ Head(evq[g]).kind = "Write" =>
                          last'.op = "on_file_change" /\ last'.path = Head(evq[g]).path
                \/ IsPrefix(evq[g], evq'[g])
                \/ evq'[g] = <<>> /\ wat[g].pc \in {"none", "done"}
          /\ (wat[g].pc # "done" /\ wat'[g].pc = "done") =>
                /\ wat[g].pc = "recv"
                /\ evq[g] # <<>>
                /\ Head(evq[g]) = GenericError(STOP_WATCHER_ERROR)
                /\ evq'[g] = Tail(evq[g])
          /\ wat[g].pc = "done" => wat'[g] = wat[g]]_vars

\* a watcher has ended after backing up a file, and a change event that was
\* sent behind the sentinel is left in its channel
C11_Witness ==
    \E g \in Threads :
        /\ wat[g].pc = "done"
        /\ sup[g].pc = "join"
        /\ assigned # <<>>
        /\ evq[g] # <<>>
        /\ Head(evq[g]).kind = "Write"

\* the watcher threads that are alive
AliveWatchers == {g \in Threads : wat[g].pc \notin {"none", "done"}}

\* C13: at every moment at most one watcher thread is alive.
C13_OneWatcher == Cardinality(AliveWatchers) <= 1

\* the sentinel waits in the channel of watcher g
StopQueued(g) == \E i \in 1..Len(evq[g]) : evq[g][i] = GenericError(STOP_WATCHER_ERROR)

\* the positions of on_file_change behind its duplicate check, and the
\* positions that follow each of them
InsideBackUp == {"back_up", "stamp", "number", "rename", "prune"}

NextPositions(pc) ==
    CASE pc = "back_up" -> {"stamp", "prune"}
      [] pc = "stamp" -> {"number", "prune"}
      [] pc = "number" -> {"rename"}
      [] pc = "rename" -> {"prune"}
      [] pc = "prune" -> {"recv"}

\* C12: a watcher that is inside back_up or the prune behind it takes
\* nothing from its channel and does not end, whether or not the sentinel
\* waits there: its next step is the next step of the back up (or, after an
\* error, the prune), and it ends only from its receive point.
C12_NoPreemption ==
    [][\A g \in Threads :
          /\ wat[g].pc \in InsideBackUp =>
                /\ IsPrefix(evq[g], evq'[g])
                /\ wat'[g].pc \in {wat[g].pc} \cup NextPositions(wat[g].pc)
                /\ wat'[g].pc # "recv" => wat'[g].file_path = wat[g].file_path
          /\ (wat[g].pc # "done" /\ wat'[g].pc = "done") => wat[g].pc = "recv"]_vars

\* Stop was requested while the watcher is between the copy and the rename
\* of a back up: the sentinel waits behind it
C12_Witness ==
    \E g \in Threads :
        /\ wat[g].pc = "rename"
        /\ StopQueued(g)
        /\ IsFile(fs, TempBackupFilePath(sup[g].settings, wat[g].file_path))

\* the version files below the destination, of whatever identity
AllVersionFiles(fsys) ==
    {p \in DOMAIN DestTree(fsys) : IsFile(fsys, p) /\ get_backed_up_version_number(p) # -1}

C14_VersionNeverChanges ==
    [][\A p \in AllVersionFiles(fs) : p \in DOMAIN fs' => fs'[p] = fs[p]]_vars

\* the modification times the programs of the environment give to live files
\* (a copy that was not stamped carries none of them)
LiveTimes == {stamp[2] : stamp \in Stamps}

\* the positions of a back up in front of its rename
BeforeRename == {"back_up", "stamp", "number", "batch_copy", "batch_stamp", "batch_number"}

\* C15: every version file that is visible carries a modification time of
\* the live file, that is, it was stamped before it was published; and a step
\* of a back up in front of the rename leaves the version files as they are.
C15_PublishedByRename ==
    [][/\ \A p \in AllVersionFiles(fs') : fs'[p].modified \in LiveTimes
       /\ \A g \in Threads :
             (wat[g].pc \in BeforeRename /\ wat'[g] # wat[g]) =>
                 /\ AllVersionFiles(fs') = AllVersionFiles(fs)
                 /\ \A p \in AllVersionFiles(fs) : fs'[p] = fs[p]
       /\ (main.pc \in BeforeRename /\ main' # main) =>
             /\ AllVersionFiles(fs') = AllVersionFiles(fs)
             /\ \A p \in AllVersionFiles(fs) : fs'[p] = fs[p]]_vars

\* the positions of the batch pass inside one round of its loop
BatchPositions ==
    {"batch", "batch_copy", "batch_stamp", "batch_number", "batch_rename", "batch_prune"}

\* C17: when the duplicate check or the back up of one live file fails, the
\* batch pass goes on with the live files that follow it.
C17_BatchGoesOn ==
    [][(/\ main.pc \in BatchPositions
        /\ main.live_file_paths # <<>>
        /\ main' # main
        /\ last'.op = "batch"
        /\ ~last'.ok) =>
           /\ main'.pc = "batch"
           /\ main'.live_file_paths = Tail(main.live_file_paths)]_vars


\* the step is the handler of a restore or delete request
HandlerStep(op) == count'.inputs = count.inputs + 1 /\ last'.op = op

\* the selected backup at row i is a file, its live path resolves, and no
\* later selected backup is a file restored to the same live path
LastRestorable(selected, i) ==
    LET source == get_live_file_for_backed_up_file(main.settings, selected[i])
    IN  /\ IsFile(fs, selected[i])
        /\ source.ok
        /\ \A j \in (i + 1)..Len(selected) :
              LET later == get_live_file_for_backed_up_file(main.settings, selected[j])
              IN  ~(IsFile(fs, selected[j]) /\ later.ok /\ later.path = source.path)

\* C18: a restore of a selection processes every selected backup, whatever
\* happened to the ones before it: each selected backup that is a file and
\* whose live path resolves is the content of its live file afterwards
\* (unless a later selected backup of the same live file replaced it)
C18_RestoreGoesOn ==
    [][HandlerStep("restore") =>
          \A i \in 1..Len(last'.path) :
              LastRestorable(last'.path, i) =>
                  LET source == get_live_file_for_backed_up_file(main.settings, last'.path[i])
                  IN  /\ source.path \in DOMAIN fs'
                      /\ fs'[source.path] = fs[last'.path[i]]]_vars

\* the rows of the selection whose remove_file fails: the entry is no file,
\* or an earlier row removed it
FailingRows(fsys, selected) ==
    {i \in 1..Len(selected) :
        \/ ~IsFile(fsys, selected[i])
        \/ \E j \in 1..(i - 1) : selected[j] = selected[i]}

\* C19: a delete of a selection removes every selected file, also the ones
\* after a failed removal, leaves every other entry as it was, and returns
\* Ok when no removal failed and else one warning with one message for each
\* failed removal
C19_DeleteAggregates ==
    [][HandlerStep("delete") =>
          LET selected == last'.path
              failing == FailingRows(fs, selected)
              result == delete_backed_up_files(fs, selected)
          IN  /\ \A i \in 1..Len(selected) :
                    IsFile(fs, selected[i]) => selected[i] \notin DOMAIN fs'
              /\ \A p \in DOMAIN fs :
                    (\A i \in 1..Len(selected) : selected[i] # p \/ ~IsFile(fs, p))
                        => (p \in DOMAIN fs' /\ fs'[p] = fs[p])
              /\ DOMAIN fs' \subseteq DOMAIN fs
              /\ last'.ok = (failing = {})
              /\ result.ok = last'.ok
              /\ result.errs = Cardinality(failing)
              /\ result.err = (IF failing = {} THEN "none" ELSE "FWarning")
              /\ main'.pc = "idle"]_vars

\* a delete of two rows has failed on the first, a directory, and removed
\* the second
C19_Witness ==
    /\ last.op = "delete"
    /\ ~last.ok
    /\ Len(last.path) = 2
    /\ IsDir(fs, last.path[1])
    /\ last.path[2] \notin DOMAIN fs
    /\ main.pc = "idle"


\* C20: when the registration of the notify watcher has failed, the backup
\* thread has sent an error status and never "Running", no watcher thread
\* exists for it, and neither it nor the UI thread, on a later request,
\* has panicked
C20_RegistrationFailure ==
    /\ main.pc # "panicked"
    /\ \A g \in Threads :
          sup[g].pc \in {"failed", "panicked"} =>
              /\ sup[g].pc = "failed"
              /\ sup[g].status # <<>>
              /\ sup[g].status[Len(sup[g].status)] = "Error"
              /\ \A i \in 1..Len(sup[g].status) : sup[g].status[i] # "Running"
              /\ wat[g].pc = "none"


\* the supervisor g has sent the status "Stopped"
StoppedReported(g) == \E i \in 1..Len(sup[g].status) : sup[g].status[i] = "Stopped"

\* C21: "Stopped" is reported only after the watcher thread has ended: in
\* the state in which a supervisor reports it and in every state after it,
\* the supervisor's watcher thread has ended (or never existed) and takes no
\* step, so it backs up, prunes and notifies no more.
C21_StoppedAfterWatcherEnded ==
    [][\A g \in Threads :
          /\ StoppedReported(g)' => wat'[g].pc \in {"none", "done"}
          /\ StoppedReported(g) => wat'[g] = wat[g]]_vars

\* a supervisor has reported "Stopped", its watcher has ended after a back
\* up, and the watcher of the next backup thread is inside a back up
C21_Witness ==
    \E g \in Threads, h \in Threads :
        /\ g # h
        /\ StoppedReported(g)
        /\ wat[g].pc = "done"
        /\ assigned # <<>>
        /\ wat[h].pc \in {"back_up", "prune"}


\* the step is one of the watcher thread g inside on_file_change: the
\* duplicate check of a Create/Write event it takes, or its back up
OnFileChangeStep(g) ==
    \/ /\ wat[g].pc = "recv"
       /\ evq[g] # <<>>
       /\ Head(evq[g]).kind = "Write"
       /\ evq'[g] = Tail(evq[g])
       /\ last'.op = "on_file_change"
    \/ /\ wat[g].pc = "back_up"
       /\ wat'[g].pc # "back_up"
       /\ last'.op = "back_up"

\* C22: a failure for one file while the watcher handles a change event is
\* sent to the UI as an Alert and not as an AlertQuit, changes nothing of the
\* supervisor, and leaves the watcher thread running.
C22_FailureIsWarning ==
    [][\A g \in Threads :
          OnFileChangeStep(g) /\ ~last'.ok =>
              /\ last'.sent = <<"Alert">>
              /\ sup' = sup
              /\ wat'[g].pc \notin {"none", "done"}]_vars


\* C24: the watcher handles a Create/Write event of a file that is no
\* duplicate by back_up, then prune, then RefreshFilesLists, and takes no
\* event from its channel before that is done; an event of any other kind
\* (no Create, Write or Error) changes nothing below the destination and
\* sends nothing.
C24_BackUpPruneRefresh ==
    [][\A g \in Threads :
          /\ (OnFileChangeStep(g) /\ wat[g].pc = "recv") =>
                IF last'.ok /\ ~last'.dup
                THEN wat'[g].pc = "back_up" /\ wat'[g].file_path = Head(evq[g]).path
                     /\ fs' = fs /\ last'.sent = <<>>
                ELSE wat'[g].pc = "recv" /\ fs' = fs
                     /\ \A i \in 1..Len(last'.sent) : last'.sent[i] # "RefreshFilesLists"
          /\ wat[g].pc = "back_up" =>
                /\ wat'[g].pc \in {"back_up", "prune"}
                /\ IsPrefix(evq[g], evq'[g])
                /\ wat'[g].pc = "prune" =>
                      /\ last'.op = "back_up"
                      /\ last'.path = wat[g].file_path
                      /\ \A i \in 1..Len(last'.sent) : last'.sent[i] # "RefreshFilesLists"
          /\ wat[g].pc = "prune" =>
                /\ wat'[g].pc \in {"prune", "recv"}
                /\ IsPrefix(evq[g], evq'[g])
                /\ wat'[g].pc = "recv" =>
                      /\ last'.op = "prune"
                      /\ last'.sent # <<>>
                      /\ last'.sent[Len(last'.sent)] = "RefreshFilesLists"
          /\ (/\ wat[g].pc = "recv"
              /\ evq[g] # <<>>
              /\ Head(evq[g]).kind \notin {"Write", "Error"}
              /\ wat'[g].pc # "none"
              /\ evq'[g] = Tail(evq[g])) =>
                /\ DestTree(fs') = DestTree(fs)
                /\ last'.sent = <<>>
                /\ wat'[g] = wat[g]]_vars

\* a watcher has backed up a changed file and is about to prune, while the
\* removal of the file waits in its channel
C24_Witness ==
    \E g \in Threads :
        /\ wat[g].pc = "prune"
        /\ last.op = "back_up"
        /\ last.ok
        /\ evq[g] # <<>>
        /\ Head(evq[g]).kind = "Remove"


\* C25: an error event that is not the stop sentinel (Io, PathNotFound,
\* WatchNotFound, Generic with another message) does not end the watcher
\* thread: the watcher takes it, changes nothing, and is at its receive
\* point again, where it takes the next event.
C25_WatchErrorGoesOn ==
    [][\A g \in Threads :
          (/\ wat[g].pc = "recv"
           /\ evq[g] # <<>>
           /\ Head(evq[g]).kind = "Error"
           /\ Head(evq[g]).err # STOP_WATCHER_ERROR
           /\ wat'[g].pc # "none"
           /\ evq'[g] = Tail(evq[g])) =>
              /\ wat'[g].pc = "recv"
              /\ fs' = fs
              /\ sup' = sup
              /\ last'.sent = <<>>]_vars

\* a watcher has just taken an error of the notify watcher, is at its
\* receive point, and the Write event that was sent behind the error is the
\* next it takes
C25_Witness ==
    \E g \in Threads :
        /\ last.op = "watcher_error"
        /\ wat[g].pc = "recv"
        /\ sup[g].status = <<"Running">>
        /\ evq[g] # <<>>
        /\ Head(evq[g]).kind = "Write"


\* no pattern of settings is for the path: none has a source directory of
\* the name of the path's directory and a file name pattern the path matches
MatchesNoPattern(settings, path) ==
    \A i \in 1..Len(settings.backup_patterns) :
        \/ FileName(settings.backup_patterns[i].source_dir) # FileName(Parent(path))
        \/ ~Matches(settings.backup_patterns[i].filename_pattern, path)

\* C26: a Create/Write event for a path that no configured pattern matches
\* makes the watcher send one Alert; nothing is created or deleted and the
\* watcher is at its receive point again.
C26_UnmatchedIsWarning ==
    [][\A g \in Threads :
          (/\ OnFileChangeStep(g)
           /\ wat[g].pc = "recv"
           /\ MatchesNoPattern(sup[g].settings, Head(evq[g]).path)) =>
              /\ last'.sent = <<"Alert">>
              /\ fs' = fs
              /\ wat'[g].pc = "recv"
              /\ sup' = sup]_vars

\* the watcher has just sent the warning for the file c of the watched
\* directory, and a Write event of a.db is the next it takes
C26_Witness ==
    \E g \in Threads :
        /\ last.op = "on_file_change"
        /\ last.path = Unrelated
        /\ last.sent = <<"Alert">>
        /\ wat[g].pc = "recv"
        /\ evq[g] # <<>>
        /\ Head(evq[g]) = FileChanged(Join(DirXW, NameA))


\* BackupMessage::Stop was sent to backup thread g
StopIssued(g) ==
    \/ \E i \in 1..Len(cmdq[g]) : cmdq[g][i].type = "Stop"
    \/ sup[g].pc \in {"join", "done"}

\* C23: when the settings window is accepted, Stop was sent to the current
\* backup thread before Run with the settings of the window is sent to the
\* next one; a supervisor takes the settings of its Run message, they never
\* change afterwards whatever happens to the settings of the main state, and
\* the duplicate check of its watcher is the one of those settings.
C23_SettingsByValue ==
    [][/\ main'.started = main.started + 1 =>
             /\ cmdq'[main'.started] = <<[type |-> "Run", settings |-> main'.settings]>>
             /\ main.started >= 1 => StopIssued(main.started)
       /\ \A g \in Threads :
             /\ (~sup[g].current_watcher /\ sup'[g].current_watcher) =>
                   /\ cmdq[g] # <<>>
                   /\ Head(cmdq[g]).type = "Run"
                   /\ sup'[g].settings = Head(cmdq[g]).settings
             /\ sup[g].current_watcher => sup'[g].settings = sup[g].settings
             /\ (OnFileChangeStep(g) /\ wat[g].pc = "recv") =>
                   LET check == live_file_has_backup(sup[g].settings, fs, Head(evq[g]).path)
                   IN  last'.ok = check.ok /\ last'.dup = check.val]_vars

\* the watcher of the first backup thread, started with the settings of the
\* start, backs up a file while the main state holds the new settings and the
\* second backup thread is running with them
C23_Witness ==
    /\ main.settings = NewSettings
    /\ sup[1].settings = ScenarioSettings
    /\ wat[1].pc = "back_up"
    /\ sup[2].current_watcher
    /\ sup[2].settings = NewSettings


\* the first pattern of settings, in the order of the configuration, that
\* is for the path; 0 when there is none
FirstMatchingPattern(settings, path) ==
    LET hits == {i \in 1..Len(settings.backup_patterns) :
                    /\ FileName(settings.backup_patterns[i].source_dir) = FileName(Parent(path))
                    /\ Matches(settings.backup_patterns[i].filename_pattern, path)}
    IN  IF hits = {} THEN 0 ELSE CHOOSE i \in hits : \A j \in hits : i <= j

\* C27: when several patterns match a changed live file, the duplicate check
\* of the watcher says "duplicate" exactly when one of the files that the
\* first matching pattern finds in the destination has the size and the
\* modification time of the live file.
C27_FirstPatternWins ==
    [][\A g \in Threads :
          (/\ OnFileChangeStep(g)
           /\ wat[g].pc = "recv"
           /\ last'.ok) =>
              LET path == Head(evq[g]).path
                  first == FirstMatchingPattern(sup[g].settings, path)
                  examined == get_backed_up_version_paths(fs, sup[g].settings.backup_dest_path,
                                  sup[g].settings.backup_patterns[first])
              IN  last'.dup = \E i \in 1..Len(examined) :
                                  /\ fs[examined[i]].len = fs[path].len
                                  /\ fs[examined[i]].modified = fs[path].modified]_vars


\* the file name of p ends in a dot and a number
HasNumericSuffix(p) ==
    LET name == FileName(p)
        dot == RFind(name, ".")
    IN  /\ dot # 0
        /\ dot < Len(name)
        /\ \A i \in (dot + 1)..Len(name) : IsDigit(name[i])

\* the files below the destination whose name does not end in a number
NonVersionFiles(fsys) ==
    {p \in DOMAIN DestTree(fsys) : IsFile(fsys, p) /\ ~HasNumericSuffix(p)}

\* the file system without those files
WithoutNonVersionFiles(fsys) == [p \in (DOMAIN fsys) \ NonVersionFiles(fsys) |-> fsys[p]]

\* C29: a file of the destination whose suffix is no number is not listed
\* as a backed up file, does not change the next version number of a live
\* file, is not removed by a prune, and never makes the duplicate check of
\* the watcher answer "duplicate".
C29_NonVersionIgnored ==
    [][/\ LET listed == get_backed_up_files(main.settings, fs)
          IN  \A i \in 1..Len(listed) : listed[i] \notin NonVersionFiles(fs)
       /\ \A path \in LivePaths(main.settings) :
             LET folder == Join(main.settings.backup_dest_path, FileName(Parent(path)))
             IN  next_backup_version(fs, folder, FileName(path))
                     = next_backup_version(WithoutNonVersionFiles(fs), folder, FileName(path))
       /\ last'.op = "prune" =>
             \A p \in NonVersionFiles(fs) : p \in DOMAIN fs' /\ fs'[p] = fs[p]
       /\ \A g \in Threads :
             (OnFileChangeStep(g) /\ wat[g].pc = "recv" /\ last'.ok) =>
                 last'.dup = live_file_has_backup(sup[g].settings, WithoutNonVersionFiles(fs),
                                                  Head(evq[g]).path).val]_vars


\* the file name of a backed up path up to its last dot
StrippedName(p) == SubSeq(FileName(p), 1, RFind(FileName(p), ".") - 1)

\* the patterns of settings that resolve the backed up path p: the pattern's
\* source directory has the name of p's folder, and p's stripped file name
\* put into that directory matches the pattern's glob
ResolvingPatterns(settings, p) ==
    {i \in 1..Len(settings.backup_patterns) :
        LET pattern == settings.backup_patterns[i]
        IN  /\ RFind(FileName(p), ".") # 0
            /\ FileName(pattern.source_dir) = FileName(Parent(p))
            /\ Matches(Join(pattern.source_dir, pattern.filename_pattern),
                       Join(pattern.source_dir, StrippedName(p)))}

\* the live paths the resolvable rows of a selection stand for
ResolvedLivePaths(settings, selected) ==
    UNION {{Join(settings.backup_patterns[i].source_dir, StrippedName(selected[k])) :
               i \in ResolvingPatterns(settings, selected[k])} : k \in 1..Len(selected)}

DoomedFiles(settings, fsys) ==
    LET backed_up_files == get_backed_up_files(settings, fsys)
        listed == {backed_up_files[i] : i \in 1..Len(backed_up_files)}
    IN  {p \in listed :
            Cardinality({q \in listed :
                /\ Parent(q) = Parent(p)
                /\ StrippedName(q) = StrippedName(p)
                /\ get_backed_up_version_number(q) > get_backed_up_version_number(p)})
              >= settings.backup_count}

\* C30: a prune removes every doomed version file, also when the removal of
\* another doomed entry fails, and returns Ok.
C30_PruneGoesOn ==
    [][\A g \in Threads :
          (wat[g].pc = "prune" /\ wat'[g].pc = "recv" /\ last'.op = "prune") =>
              LET doomed == DoomedFiles(sup[g].settings, fs)
              IN  /\ last'.ok
                  /\ \A p \in doomed : IsFile(fs, p) => p \notin DOMAIN fs'
                  /\ \A p \in DOMAIN fs :
                        p \notin doomed \/ ~IsFile(fs, p)
                            => (p \in DOMAIN fs' /\ fs'[p] = fs[p])]_vars

\* a prune has just removed the oldest version of a.db although the
\* directory a.db.0, doomed with it, could not be removed
C30_Witness ==
    /\ last.op = "prune"
    /\ last.ok
    /\ IsDir(fs, ForeignDir)
    /\ Join(Parent(ForeignDir), NameA \o <<".", "2">>) \notin DOMAIN fs
    /\ IsFile(fs, Join(Parent(ForeignDir), NameA \o <<".", "3">>))
    /\ IsFile(fs, Join(Parent(ForeignDir), NameA \o <<".", "4">>))

\* C31: a restore writes its temp file beside the live path, in the live
\* file's own directory, and creates no file in the destination tree: every
\* path that the copy of a restore creates has the live file's parent and
\* lies outside the destination root.
C31_TempBesideLive ==
    [][(main.pc = "restore_copy" /\ main'.pc = "restore_stamp") =>
          LET backed_up_path == Head(main.selected_backup_paths)
              source == get_live_file_for_backed_up_file(main.settings, backed_up_path)
          IN  \A p \in (DOMAIN fs') \ (DOMAIN fs) :
                 /\ Parent(p) = Parent(source.path)
                 /\ ~IsPrefix(DestRoot, p)]_vars

\* the path p holds the same entry, or none, in both file systems
SameAt(f1, f2, p) ==
    /\ p \in DOMAIN f1 <=> p \in DOMAIN f2
    /\ p \in DOMAIN f1 => f1[p] = f2[p]

\* the positions of a back up that has made its temp copy and has not yet
\* renamed it
HoldsTempCopy == {"stamp", "number", "rename"}

\* the positions of a restore that has made its temp copy and has not yet
\* renamed it
HoldsRestoreCopy == {"restore_stamp", "restore_rename"}

\* C36: a back up of the watcher thread and a restore of the UI thread never
\* write the same temp path: while a back up holds its temp copy no step of
\* a restore changes that file, and while a restore holds its temp copy no
\* step of a back up changes that file; so what a back up renames into a
\* version is its own copy of the live file, and what a restore renames over
\* the live file is its own copy of the version.
C36_NoSharedTemp ==
    [][\A g \in Threads :
          /\ (wat[g].pc \in HoldsTempCopy /\ main' # main) =>
                 SameAt(fs, fs', TempBackupFilePath(sup[g].settings, wat[g].file_path))
          /\ (main.pc \in HoldsRestoreCopy /\ wat'[g] # wat[g]) =>
                 LET backed_up_path == Head(main.selected_backup_paths)
                     source == get_live_file_for_backed_up_file(main.settings, backed_up_path)
                 IN  SameAt(fs, fs', TempSourceFilePath(backed_up_path, source.path))]_vars

\* the types of the messages that wait in the command channel of thread g
Pending(g) == [i \in 1..Len(cmdq[g]) |-> cmdq[g][i].type]

\* C32: every supervisor thread receives Run exactly once, as its first
\* message, and Stop at most once and only behind that Run: a thread that was
\* not started has an empty channel, a thread that has not yet taken its Run
\* has it at the head of its channel with at most one Stop behind it, a
\* thread that has taken its Run has at most one Stop waiting, and a thread
\* that has taken Stop has nothing waiting; so Run never arrives at a
\* supervisor that has a current watcher.
C32_RunOnceThenStop ==
    \A g \in Threads :
       /\ sup[g].pc = "none" => Pending(g) = <<>>
       /\ (sup[g].pc = "recv" /\ ~sup[g].current_watcher) =>
              Pending(g) \in {<<"Run">>, <<"Run", "Stop">>}
       /\ (sup[g].pc = "recv" /\ sup[g].current_watcher) =>
              Pending(g) \in {<<>>, <<"Stop">>}
       /\ sup[g].pc \in {"join", "done"} => Pending(g) = <<>>
       /\ (cmdq[g] # <<>> /\ Head(cmdq[g]).type = "Run") => ~sup[g].current_watcher

\* the first backup thread has taken Run and Stop and has ended, the second
\* has taken its Run, and the Stop of the second visit of the settings
\* window waits in its channel
C32_Witness ==
    /\ sup[1].pc = "done"
    /\ sup[1].status = <<"Running", "Stopped">>
    /\ sup[2].pc = "recv"
    /\ sup[2].current_watcher
    /\ Pending(2) = <<"Stop">>
    /\ main.settings_win

\* C34: the assertions of stop_backup_thread hold whenever the UI loop
\* handles MenuSettings (main holds a backup thread handle and a command
\* sender), and the assertions of start_backup_thread hold whenever it
\* handles SettingsOk (main holds no backup thread handle).
C34_AssertionsHold ==
    [][/\ last'.op = "menu_settings" =>
             (main.backup_thread # 0 /\ main.backup_thread_tx # 0)
       /\ last'.op = "settings_ok" => main.backup_thread = 0]_vars

\* C35: after a quit request the process eventually exits.
C35_QuitExits == main.quitting ~> (main.pc = "exited")

\* C33: when the supervisor has ended at its closed command channel and the
\* receive of the watcher thread fails, the watcher thread returns normally.
C33_WatcherReturns ==
    [][\A g \in Threads :
          (WatcherRecvFails(g) /\ wat'[g] # wat[g]) => wat'[g].pc = "done"]_vars

\* the live files the step before this state renamed a restored copy over
JustRestored ==
    IF last.op = "restore" /\ last.ok
    THEN {last.restored[i] : i \in 1..Len(last.restored)}
    ELSE IF last.op = "restore_rename" /\ last.ok
    THEN {get_live_file_for_backed_up_file(main.settings, last.path).path}
    ELSE {}

\* the watcher thread g handles the change event of a file restored just now
HandlesRestored(g) ==
    /\ wat[g].pc = "recv"
    /\ evq[g] # <<>>
    /\ Head(evq[g]).kind = "Write"
    /\ Head(evq[g]).path \in JustRestored
    /\ evq'[g] = Tail(evq[g])
    /\ last'.op = "on_file_change"

\* C37: when restore has replaced a live file with a version and the watcher
\* then handles the change event of that file, the duplicate check is true,
\* no back up is started and no file changes.
C37_RestoreIsDuplicate ==
    [][\A g \in Threads :
          HandlesRestored(g) =>
              /\ last'.ok
              /\ last'.dup
              /\ wat'[g].pc = "recv"
              /\ fs' = fs]_vars

\* an older version was restored over a live file whose newest version
\* differs from it, and the watcher is handed the change event: the check
\* it is about to make finds the restored version
C37_Witness ==
    \E g \in Threads :
        /\ last.op = "restore"
        /\ wat[g].pc = "recv"
        /\ evq[g] # <<>>
        /\ Head(evq[g]).kind = "Write"
        /\ Head(evq[g]).path \in JustRestored
        /\ fs[Head(evq[g]).path] = fs[last.path[1]]
        /\ \E newer \in VersionFilesOf(fs, IdentityOf(Head(evq[g]).path)) :
              fs[newer] # fs[last.path[1]]
        /\ live_file_has_backup(sup[g].settings, fs, Head(evq[g]).path).val

\* C38: the version a successful back up has just created still exists after
\* the prune that follows it, for every configuration the program starts with.
C38_NewestSurvivesPrune ==
    [][\A g \in Threads :
          (/\ wat[g].pc = "prune"
           /\ last.op = "back_up"
           /\ last.ok
           /\ last.path = wat[g].file_path
           /\ last'.op = "prune")
          => IsFile(fs', VersionPath(last.path, last.version))]_vars

\* the step publishes a back up: the whole back_up_live_file, or its rename
PublishedBackUp == last'.op \in {"back_up", "batch_back_up"} /\ last'.ok

\* C39: a successful back up of a live file adds exactly one version file,
\* a file that did not exist, and leaves every live file and every version
\* file that existed as it was.
C39_BackUpAddsOneVersion ==
    [][PublishedBackUp =>
          LET new == VersionPath(last'.path, last'.version)
          IN  /\ new \notin DOMAIN fs
              /\ IsFile(fs', new)
              /\ AllVersionFiles(fs') = AllVersionFiles(fs) \cup {new}
              /\ \A p \in AllVersionFiles(fs) : fs'[p] = fs[p]
              /\ \A p \in LivePaths(main.settings) \cap DOMAIN fs :
                    p \in DOMAIN fs' /\ fs'[p] = fs[p]]_vars

====
